---- MODULE Spec2Model ----
(***************************************************************************)
(* bullmq-dash: the observable Store (src/src/state.ts, StateManager), the *)
(* Poll Scheduler (src/src/app.ts, PollingManager), the key and selection  *)
(* handlers that drive them (src/src/app.ts App.handleKeyPress, the        *)
(* SELECTION_CHANGED handlers of the list widgets) and the broker calls    *)
(* they await (getAllQueueStats, getGlobalMetrics, getJobs,                *)
(* getJobSchedulers).                                                      *)
(*                                                                         *)
(* Execution model: JavaScript, one thread.  A step of this module is one  *)
(* synchronous run of a handler or of the continuation of an await: from   *)
(* the event that starts it up to the next remote call it awaits (or its   *)
(* return).  The suspension points are the remote calls; a remote call     *)
(* returns a value chosen by the broker or throws.  Every setState of one  *)
(* synchronous run is applied, in order, inside the step.                  *)
(*                                                                         *)
(* JavaScript arrays are 0-based: index i of an array is element i + 1 of  *)
(* the sequence that models it (see At).                                   *)
(***************************************************************************)
EXTENDS Integers, Sequences, FiniteSets, TLC

(***************************************************************************)
(* Bounds of the model.                                                    *)
(***************************************************************************)
\* PAGE_SIZE is 25 in the source (unnamed/part_002:35, unnamed/part_000:226);
\* the model pages by a smaller size so that several pages fit in MaxTotal.
PageSize == 2
\* The largest remote count (jobs of a view, schedulers of a queue) the broker reports.
MaxTotal == 3
\* The remote counts the broker reports: nothing, or a list that fills more than one page.
Totals == {0, MaxTotal}
\* The number of poll() invocations that may be past the guard at once
\* (the guard keeps it at one; a second slot exists so that a missing guard shows).
MaxPolls == 2
\* The number of refreshJobs()/refreshSchedulers() calls awaiting their remote call.
MaxPartials == 1
\* The number of MetricsTracker.update calls followed when the tracker is taken
\* by itself (each smoothing step adds a decimal to the smoothed rates).
MaxUpdates == 3

\* The queue names the broker may hold, in sorting order.
QueueNameOrder == <<"a", "b">>
QueueNames == {QueueNameOrder[k] : k \in DOMAIN QueueNameOrder}
\* The status filters of the model: two job views and the scheduler view
\* (STATUS_OPTIONS has 1:latest 2:wait 3:active 4:completed 5:failed 6:delayed 7:schedulers).
STATUS_OPTIONS == [k \in {"1", "2", "7"} |->
                     CASE k = "1" -> "latest" [] k = "2" -> "wait" [] k = "7" -> "schedulers"]
\* The statuses getJobs answers from the broker (its switch cases); every other
\* value of the filter takes the default branch.
JobStatuses == {"latest", "wait", "active", "completed", "failed", "delayed"}
\* What a failed remote call throws: an Error with a message, or a value that is no Error.
Thrown == { [isError |-> TRUE, message |-> "ECONNREFUSED"],
            [isError |-> FALSE, message |-> "n/a"] }

Null == "null"

VARIABLES
  state,        \* StateManager.state, the Store's snapshot
  isRunning,    \* PollingManager.isRunning
  intervalId,   \* PollingManager.intervalId: TRUE while the interval timer is armed
  isPolling,    \* PollingManager.isPolling, the re-entrancy guard
  polls,        \* the poll() invocations past the guard: where each one stands
  fetches,      \* the job/scheduler page fetches awaited by a poll or a partial refresh, in issue order
  tracker,      \* metricsTracker (MetricsTracker): whether a baseline is recorded
  strayMetrics, \* a getGlobalMetrics() call still running after its poll's Promise.all rejected
  ev,           \* history: the last step taken and what it did
  listeners,    \* StateManager.listeners: the subscribed listeners, in insertion order
  held,         \* the values callers received from getState() or as listeners and still hold
  metricsTracker, \* the fields of the MetricsTracker singleton, when its arithmetic is followed
  now,          \* Date.now(), in milliseconds, when the tracker's arithmetic is followed
  updates,      \* the number of MetricsTracker.update calls followed so far
  queueJobs,    \* the broker's job lists of a queue, when getJobs is followed by itself
  armed,        \* the interval timers armed by setInterval and not cleared
  config,       \* configInstance of config.ts: unset, or the configuration with its queueNames
  queueNamesCache, \* queueNamesCache of data/queues: null, or the names and time of a scan
  redisKeys,    \* the bull:*:meta keys the broker holds, each by what stands for *
  discoveries,  \* the discoverQueueNames() calls of getAllQueueStats and getGlobalMetrics
  brokerHolds,  \* the job ids and scheduler keys the broker holds, when lookups are followed
  lookups,      \* the detail and delete lookups the App's handlers are awaiting
  finished,     \* the broker's completed and failed lists, and each job's repeatJobKey
  confirmed     \* the job ids whose deletion was confirmed in the delete dialog now on screen

vars == <<state, isRunning, intervalId, isPolling, polls, fetches, tracker, strayMetrics, ev,
          listeners, held, metricsTracker, now, updates, queueJobs, armed,
          config, queueNamesCache, redisKeys, discoveries, brokerHolds,
          lookups, finished, confirmed>>

\* What the steps of the poll scheduler and of the key handlers leave alone: the
\* listeners and the values callers hold (followed where the Store is taken by
\* itself), and the tracker's arithmetic, of which these steps keep only `tracker`.
Elsewhere == UNCHANGED <<listeners, held, metricsTracker, now, updates, queueJobs, armed, config,
          queueNamesCache, redisKeys, discoveries, brokerHolds, lookups,
          finished, confirmed>>

(***************************************************************************)
(* Helpers                                                                 *)
(***************************************************************************)
Min(a, b) == IF a < b THEN a ELSE b
Max(a, b) == IF a > b THEN a ELSE b
\* Math.ceil(total / pageSize)
CeilDiv(total, size) == (total + size - 1) \div size

\* array[i] of JavaScript: the element, or Null for undefined
At(arr, i) == IF i + 1 \in DOMAIN arr THEN arr[i + 1] ELSE Null

\* The sorted array of a set of queue names (Array.from(set).toSorted()).
SortedNames(S) == SelectSeq(QueueNameOrder, LAMBDA n : n \in S)
\* arr.filter((_, j) => j !== k - 1) on a sequence: the sequence without its k-th element
RemoveAt(seq, k) == [j \in 1..(Len(seq) - 1) |-> IF j < k THEN seq[j] ELSE seq[j + 1]]

(***************************************************************************)
(* The Store: src/src/state.ts                                             *)
(***************************************************************************)
InitialState ==
  [ connected |-> FALSE,
    error |-> Null,
    globalMetrics |-> <<>>,
    queues |-> <<>>,
    selectedQueueIndex |-> 0,
    jobs |-> <<>>,
    jobsTotal |-> 0,
    jobsPage |-> 1,
    jobsTotalPages |-> 0,
    jobsStatus |-> "latest",
    selectedJobIndex |-> 0,
    jobDetail |-> <<>>,
    showJobDetail |-> FALSE,
    schedulers |-> <<>>,
    schedulersTotal |-> 0,
    schedulersPage |-> 1,
    schedulersTotalPages |-> 0,
    selectedSchedulerIndex |-> 0,
    schedulerDetail |-> <<>>,
    showSchedulerDetail |-> FALSE,
    focusedPane |-> "queues",
    showConfirmDelete |-> FALSE,
    showPageJump |-> FALSE,
    pageJumpInput |-> <<>>,
    isLoading |-> FALSE ]

\* A setState that keeps nothing of the state it replaces
SetStateReplaces(s, partial) ==
  [f \in DOMAIN s |-> IF f \in DOMAIN partial THEN partial[f] ELSE InitialState[f]]

\* setState(partial): { ...this.state, ...partial }
SetState(s, partial) ==
  [f \in DOMAIN s |-> IF f \in DOMAIN partial THEN partial[f] ELSE s[f]]

(***************************************************************************)
(* The broker's answers: unnamed/part_002 (data/jobs), unnamed/part_000    *)
(* (data/queues, data/schedulers), unnamed/part_001 (data/metrics)         *)
(***************************************************************************)
\* The items of page `page` of a remote list of `total` items: each item is named
\* by its position in the list.
Window(page, total) ==
  LET start == (page - 1) * PageSize
      n == Max(0, Min(PageSize, total - start))
  IN [k \in 1..n |-> start + k]

\* getJobs(queueName, status, page): the switch over status; a status that is no
\* case of it takes the default branch (no remote call, nothing found).
GetJobs(status, page, total) ==
  IF status \in JobStatuses
  THEN [jobs |-> Window(page, total), total |-> total, totalPages |-> CeilDiv(total, PageSize)]
  ELSE [jobs |-> <<>>, total |-> 0, totalPages |-> CeilDiv(0, PageSize)]

\* getJobs makes remote calls for this status (the cases of its switch, and "latest")
GetJobsIsRemote(status) == status \in JobStatuses

\* getJobSchedulers(queueName, page)
GetJobSchedulers(page, total) ==
  [schedulers |-> Window(page, total), total |-> total, totalPages |-> CeilDiv(total, PageSize)]

\* getAllQueueStats(): one QueueStats per discovered name, in the order of the names
\* (the counts of a queue are left out: no operation of the Store or the scheduler reads them).
GetAllQueueStats(names) ==
  LET sorted == SortedNames(names)
  IN [k \in DOMAIN sorted |-> [name |-> sorted[k]]]

\* getAllQueueStats() over the array discoverQueueNames() returned:
\* queueNames.map((name) => getQueueStats(name))
QueueStatsOf(queueNames) == [k \in DOMAIN queueNames |-> [name |-> queueNames[k]]]

\* MetricsTracker.update: the first observation gives zero rates, a later one rates
\* measured against the recorded baseline; either way a baseline is recorded.
TrackerUpdate(t) ==
  [rates |-> IF t.hasBaseline THEN "measured" ELSE "zero", tracker |-> [hasBaseline |-> TRUE]]

\* MetricsTracker.reset
TrackerReset == [hasBaseline |-> FALSE]

\* getGlobalMetrics() over the queue names it discovered: no queue, no tracker update.
GetGlobalMetrics(names, t) ==
  IF names = {}
  THEN [metrics |-> [queueCount |-> 0, rates |-> "zero"], tracker |-> t]
  ELSE [metrics |-> [queueCount |-> Cardinality(names), rates |-> TrackerUpdate(t).rates],
        tracker |-> TrackerUpdate(t).tracker]

\* error instanceof Error ? error.message : "Unknown error"
ErrorMessage(thrown) == IF thrown.isError THEN thrown.message ELSE "Unknown error"

(***************************************************************************)
(* PollingManager.poll: src/src/app.ts 544-636                             *)
(***************************************************************************)
\* A poll() invocation: where it is (pc), its local wasConnected, what its two
\* parallel fetches returned so far, and as history the status filter the Store
\* held when it entered (kept until the summaries are written) and whether it
\* entered after an outage (the Store had been connected and was not any more).
IdlePoll == [pc |-> "idle", wasConnected |-> FALSE, startConnected |-> FALSE,
             stats |-> <<>>, metrics |-> <<>>, statusAtEntry |-> Null,
             afterOutage |-> FALSE]

NoEvent == [op |-> "none"]

\* The two callers of discoverQueueNames() in a poll, and a call that is not scanning
Callers == {"stats", "metrics"}
IdleDiscovery == [pc |-> "idle", now |-> 0, queueNames |-> <<>>, present |-> {}]

\* The job lists a queue keeps at the broker, in the order getJobs spreads them
\* for the "latest" view (unnamed/part_002 69-78); a job is its timestamp.
Categories == <<"active", "waiting", "completed", "failed", "delayed", "prioritized">>
NoJobs == [c \in {Categories[k] : k \in DOMAIN Categories} |-> <<>>]
\* A queue none of whose jobs has finished; a job is named by its timestamp
NoneFinished == [completed |-> <<>>, failed |-> <<>>, repeatJobKey |-> <<>>]

\* What a caller holds of the Store: nothing at first; later the value that
\* getState() returned or a listener was passed, of which the model keeps whether
\* it is the Store's own object (same) and which arrays it shares with it.
NothingHeld == [has |-> FALSE, same |-> FALSE, shares |-> {}]

\* The fields of a new MetricsTracker (unnamed/part_001 27-32); a rate is a
\* fraction <<numerator, denominator>> in lowest terms.
NewMetricsTracker ==
  [lastPollTime |-> <<>>, lastTotalJobs |-> 0, lastProcessedJobs |-> 0,
   smoothedEnqueuedPerMin |-> <<0, 1>>, smoothedDequeuedPerMin |-> <<0, 1>>]

\* The page fields set to "nothing found".
ClearedSchedulers == [schedulers |-> <<>>, schedulersTotal |-> 0, schedulersTotalPages |-> 0]
ClearedPages == [jobs |-> <<>>, jobsTotal |-> 0, jobsTotalPages |-> 0,
                 schedulers |-> <<>>, schedulersTotal |-> 0, schedulersTotalPages |-> 0]

\* A page fetch awaited: who awaits it (owner: the poll, 0 for a partial refresh),
\* what it fetches (args: the arguments of the call) and, as history, whether a
\* refresh issued after it has written page state since.  The broker's answer does
\* not depend on the queue and the status asked for, so of the arguments only the
\* page is kept while the call is awaited; the step that issues the call leaves
\* all of them in ev.
Pending(owner, by, args) ==
  [owner |-> owner, by |-> by, kind |-> args.kind, page |-> args.page, overtaken |-> FALSE]

\* A page fetch that wrote (or a refresh that wrote without a remote call) overtakes
\* every fetch still awaited that was issued before it.
Overtake(fs, k) == [j \in DOMAIN fs |-> IF j < k THEN [fs[j] EXCEPT !.overtaken = TRUE] ELSE fs[j]]

\* A poll() that does not test the guard (what SinglePoll rules out)
PollGuardDropped == FALSE

\* if (this.isPolling) return;
PollGuard == isPolling

\* const wasConnected = stateManager.getState().connected;
WasConnected(s) == s.connected

\* A poll that writes the selected-queue index back as it found it
ClampedIndexKept(s, queues) == s.selectedQueueIndex

\* Math.min(currentState.selectedQueueIndex, queues.length - 1), or 0 without queues
ClampedIndex(s, queues) ==
  IF Len(queues) > 0 THEN Min(s.selectedQueueIndex, Len(queues) - 1) ELSE 0

\* The summary write: setState({queues, globalMetrics, connected, error, selectedQueueIndex})
SummaryWrite(s, queues, globalMetrics) ==
  SetState(s, [queues |-> queues, globalMetrics |-> globalMetrics, connected |-> TRUE,
               error |-> Null, selectedQueueIndex |-> ClampedIndex(s, queues)])

\* updatedState.jobsStatus === "scheduled": the poll fetches schedulers
PollFetchesSchedulers(s) == s.jobsStatus = "scheduled"

\* A poll that fetches the first page of the default filter whatever the Store holds
PollPageRequestDefault(s, queues, clampedIndex) ==
  [kind |-> "jobs", queue |-> queues[clampedIndex + 1].name,
   status |-> InitialState.jobsStatus, page |-> InitialState.jobsPage]

\* The page fetch a poll issues after the summary write: getJobSchedulers(name,
\* schedulersPage) or getJobs(name, jobsStatus, jobsPage), read from updatedState s
\* and from the fetched queues at clampedIndex.
PollPageRequest(s, queues, clampedIndex) ==
  [kind |-> IF PollFetchesSchedulers(s) THEN "schedulers" ELSE "jobs",
   queue |-> queues[clampedIndex + 1].name,
   status |-> IF PollFetchesSchedulers(s) THEN Null ELSE s.jobsStatus,
   page |-> IF PollFetchesSchedulers(s) THEN s.schedulersPage ELSE s.jobsPage]

\* The page write of a poll: the fetched page, the other page cleared.
PollJobsWrite(s, r) ==
  SetState(s, [jobs |-> r.jobs, jobsTotal |-> r.total, jobsTotalPages |-> r.totalPages,
               schedulers |-> <<>>, schedulersTotal |-> 0, schedulersTotalPages |-> 0])
PollSchedulersWrite(s, r) ==
  SetState(s, [schedulers |-> r.schedulers, schedulersTotal |-> r.total,
               schedulersTotalPages |-> r.totalPages,
               jobs |-> <<>>, jobsTotal |-> 0, jobsTotalPages |-> 0])

\* catch: setState({connected: false, error: errorMessage, isLoading: false})
CatchWrite(s, thrown) ==
  SetState(s, [connected |-> FALSE, error |-> ErrorMessage(thrown), isLoading |-> FALSE])

\* A catch block that resets the tracker whatever the connection was
ResetsTrackerAlways(wasConnected) == TRUE

\* if (wasConnected) resetMetricsTracker();
ResetsTracker(wasConnected) == wasConnected

\* A guard cleared at the end of the try block instead of in finally
GuardAfterTryOnly(threw) == threw

\* finally: this.isPolling = false, after the body completed (TRUE: it threw)
GuardAfter(threw) == FALSE

\* A poll that resumes as soon as one of its two fetches returned
SummariesRaced(p) == p.stats # <<>> \/ p.metrics # <<>>

\* await Promise.all([getAllQueueStats(), getGlobalMetrics()]) resumes the poll
SummariesResolved(p) == p.stats # <<>> /\ p.metrics # <<>>

\* What a page write leaves in the history: who wrote which page, whether it was
\* fetched by a remote call, and whether a refresh issued later had already written.
PageWritten(f, remote) ==
  [op |-> "pageWritten", by |-> f.by, kind |-> f.kind, page |-> f.page,
   remote |-> remote, overtaken |-> f.overtaken]

\* poll(), lines 544-552: the guard, wasConnected, isLoading, the two fetches issued.
Poll ==
  \/ /\ PollGuard
     /\ ev' = [op |-> "pollSkipped"]
     /\ UNCHANGED <<state, isPolling, polls, fetches, tracker, strayMetrics>>
  \/ /\ ~PollGuard
     /\ \E i \in 1..MaxPolls :
          /\ polls[i].pc = "idle"
          /\ \A j \in 1..(i - 1) : polls[j].pc # "idle"
          /\ polls' = [polls EXCEPT ![i] =
                         [pc |-> "summaries", wasConnected |-> WasConnected(state),
                          startConnected |-> state.connected,
                          stats |-> <<>>, metrics |-> <<>>,
                          statusAtEntry |-> state.jobsStatus,
                          afterOutage |-> (~state.connected /\ state.globalMetrics # <<>>)]]
     /\ isPolling' = TRUE
     /\ state' = SetState(state, [isLoading |-> TRUE])
     /\ ev' = [op |-> "pollEntered"]
     /\ UNCHANGED <<fetches, tracker, strayMetrics>>

\* poll(), lines 557-619, run when Promise.all resolved: p is the poll with both results.
AfterSummaries(i, p) ==
  LET queues == IF p.stats = <<>> THEN <<>> ELSE p.stats[1]
      s1 == SummaryWrite(state, queues, p.metrics)
      hasQueue == ClampedIndex(state, queues) + 1 \in DOMAIN queues
  IN IF hasQueue /\ (PollFetchesSchedulers(s1) \/ GetJobsIsRemote(s1.jobsStatus))
     THEN \* a remote page fetch is awaited
          /\ state' = s1
          /\ polls' = [polls EXCEPT ![i] = [p EXCEPT !.pc = "page", !.statusAtEntry = Null]]
          /\ fetches' = Append(fetches, Pending(i, "poll",
                                  PollPageRequest(s1, queues, ClampedIndex(state, queues))))
          /\ ev' = [op |-> "summaryWritten",
                    request |-> PollPageRequest(s1, queues, ClampedIndex(state, queues)),
                    selectedBefore |-> state.selectedQueueIndex,
                    statusAtEntry |-> p.statusAtEntry]
          /\ UNCHANGED isPolling
     ELSE \* no selected queue, or getJobs' default branch: nothing to await
          LET s2 == IF hasQueue
                    THEN PollJobsWrite(s1, GetJobs(s1.jobsStatus, s1.jobsPage, 0))
                    ELSE SetState(s1, ClearedPages)
          IN /\ state' = SetState(s2, [isLoading |-> FALSE])
             /\ polls' = [polls EXCEPT ![i] = IdlePoll]
             /\ fetches' = Overtake(fetches, Len(fetches) + 1)
             /\ isPolling' = GuardAfter(FALSE)
             /\ ev' = [op |-> "pollDone", fetched |-> FALSE,
                       selectedBefore |-> state.selectedQueueIndex,
                       afterOutage |-> p.afterOutage]

\* getAllQueueStats() of poll i returns the stats of the queues `names`.
StatsDone(i, names) ==
  /\ polls[i].pc = "summaries" /\ polls[i].stats = <<>>
  /\ LET p == [polls[i] EXCEPT !.stats = <<GetAllQueueStats(names)>>]
     IN IF SummariesResolved(p)
        THEN AfterSummaries(i, p)
        ELSE /\ polls' = [polls EXCEPT ![i] = p]
             /\ ev' = [op |-> "arrived"]
             /\ UNCHANGED <<state, fetches, isPolling>>
  /\ UNCHANGED <<isRunning, intervalId, tracker, strayMetrics>>
  /\ Elsewhere

\* getGlobalMetrics() of poll i returns, having seen the queues `names`.
MetricsDone(i, names) ==
  /\ polls[i].pc = "summaries" /\ polls[i].metrics = <<>>
  /\ LET g == GetGlobalMetrics(names, tracker)
         p == [polls[i] EXCEPT !.metrics = <<g.metrics>>]
     IN /\ tracker' = g.tracker
        /\ IF SummariesResolved(p)
           THEN AfterSummaries(i, p)
           ELSE /\ polls' = [polls EXCEPT ![i] = p]
                /\ ev' = [op |-> "arrived"]
                /\ UNCHANGED <<state, fetches, isPolling>>
  /\ UNCHANGED <<isRunning, intervalId, strayMetrics>>
  /\ Elsewhere

\* poll(), lines 620-635: catch and finally of poll i, after `thrown` was thrown.
Catch(i, thrown) ==
  /\ tracker' = IF ResetsTracker(polls[i].wasConnected) THEN TrackerReset ELSE tracker
  /\ state' = CatchWrite(state, thrown)
  /\ isPolling' = GuardAfter(TRUE)
  /\ polls' = [polls EXCEPT ![i] = IdlePoll]
  /\ ev' = [op |-> "pollFailed", thrown |-> thrown,
            startConnected |-> polls[i].startConnected, trackerBefore |-> tracker]

\* One of the two parallel fetches of poll i throws: Promise.all rejects at once,
\* the other fetch runs on unobserved.
SummariesFail(i, which, thrown) ==
  /\ polls[i].pc = "summaries"
  /\ \/ which = "stats" /\ polls[i].stats = <<>>
        /\ strayMetrics' = (strayMetrics \/ polls[i].metrics = <<>>)
     \/ which = "metrics" /\ polls[i].metrics = <<>>
        /\ UNCHANGED strayMetrics
  /\ Catch(i, thrown)
  /\ UNCHANGED <<isRunning, intervalId, fetches>>
  /\ Elsewhere

\* The getGlobalMetrics() call left behind by a rejected Promise.all returns (it
\* updates the tracker on its way) or throws.
StrayMetricsDone ==
  /\ strayMetrics
  /\ strayMetrics' = FALSE
  /\ \/ \E names \in SUBSET QueueNames : tracker' = GetGlobalMetrics(names, tracker).tracker
     \/ UNCHANGED tracker
  /\ ev' = NoEvent
  /\ UNCHANGED <<state, isRunning, intervalId, isPolling, polls, fetches>>
  /\ Elsewhere

\* The page fetch of a poll (fetches[k]) returns a page of a list of `total` items.
PollPageDone(k, total) ==
  /\ k \in DOMAIN fetches /\ fetches[k].by = "poll"
  /\ LET f == fetches[k]
         s2 == IF f.kind = "schedulers"
               THEN PollSchedulersWrite(state, GetJobSchedulers(f.page, total))
               ELSE PollJobsWrite(state, GetJobs("latest", f.page, total))
     IN /\ state' = SetState(s2, [isLoading |-> FALSE])
        /\ polls' = [polls EXCEPT ![f.owner] = IdlePoll]
        /\ fetches' = RemoveAt(Overtake(fetches, k), k)
        /\ isPolling' = GuardAfter(FALSE)
        /\ ev' = PageWritten(f, TRUE) @@ [afterOutage |-> polls[f.owner].afterOutage]
  /\ UNCHANGED <<isRunning, intervalId, tracker, strayMetrics>>
  /\ Elsewhere

\* The page fetch of a poll throws.
PollPageFail(k, thrown) ==
  /\ k \in DOMAIN fetches /\ fetches[k].by = "poll"
  /\ Catch(fetches[k].owner, thrown)
  /\ fetches' = RemoveAt(fetches, k)
  /\ UNCHANGED <<isRunning, intervalId, strayMetrics>>
  /\ Elsewhere

(***************************************************************************)
(* PollingManager.refreshJobs / refreshSchedulers: src/src/app.ts 644-716  *)
(***************************************************************************)
Partials == {k \in DOMAIN fetches : fetches[k].by # "poll"}

\* The page write of refreshJobs() / refreshSchedulers(), from the fetched result.
RefreshJobsWrite(s, r) ==
  SetState(s, [jobs |-> r.jobs, jobsTotal |-> r.total, jobsTotalPages |-> r.totalPages])
RefreshSchedulersWrite(s, r) ==
  SetState(s, [schedulers |-> r.schedulers, schedulersTotal |-> r.total,
               schedulersTotalPages |-> r.totalPages])

\* A partial refresh whose catch block reports the failure as a lost connection
RefreshCatchDisconnects(s, thrown) ==
  SetState(s, [connected |-> FALSE, error |-> ErrorMessage(thrown)])

\* catch of refreshJobs() / refreshSchedulers(): console.error, nothing else
RefreshCatch(s, thrown) == s

\* state.jobsStatus === "scheduled": refreshJobs fetches schedulers
RefreshFetchesSchedulers(s) == s.jobsStatus = "scheduled"

\* The fetch refreshJobs() issues, read from the Store s: getJobSchedulers(name,
\* schedulersPage) or getJobs(name, jobsStatus, jobsPage).
RefreshJobsRequest(s) ==
  [kind |-> IF RefreshFetchesSchedulers(s) THEN "schedulers" ELSE "jobs",
   queue |-> s.queues[s.selectedQueueIndex + 1].name,
   status |-> IF RefreshFetchesSchedulers(s) THEN Null ELSE s.jobsStatus,
   page |-> IF RefreshFetchesSchedulers(s) THEN s.schedulersPage ELSE s.jobsPage]

\* The fetch refreshSchedulers() issues, read from the Store s: getJobSchedulers(name, schedulersPage).
RefreshSchedulersRequest(s) ==
  [kind |-> "schedulers", queue |-> s.queues[s.selectedQueueIndex + 1].name,
   status |-> Null, page |-> s.schedulersPage]

\* refreshJobs(), called by a handler that left the Store as s.
RefreshJobs(s) ==
  IF s.selectedQueueIndex + 1 \notin DOMAIN s.queues
  THEN /\ state' = SetState(s, ClearedPages)
       /\ fetches' = Overtake(fetches, Len(fetches) + 1)
       /\ ev' = [op |-> "refreshCleared", by |-> "refreshJobs"]
  ELSE IF RefreshFetchesSchedulers(s) \/ GetJobsIsRemote(s.jobsStatus)
  THEN /\ Cardinality(Partials) < MaxPartials
       /\ state' = s
       /\ fetches' = Append(fetches, Pending(0, "refreshJobs", RefreshJobsRequest(s)))
       /\ ev' = [op |-> "refreshIssued", by |-> "refreshJobs", request |-> RefreshJobsRequest(s)]
  ELSE \* getJobs' default branch: no remote call
       /\ state' = RefreshJobsWrite(s, GetJobs(s.jobsStatus, s.jobsPage, 0))
       /\ fetches' = Overtake(fetches, Len(fetches) + 1)
       /\ ev' = PageWritten(Pending(0, "refreshJobs", RefreshJobsRequest(s)), FALSE)

\* refreshSchedulers(), called by a handler that left the Store as s.
RefreshSchedulers(s) ==
  IF s.selectedQueueIndex + 1 \notin DOMAIN s.queues
  THEN /\ state' = SetState(s, ClearedSchedulers)
       /\ fetches' = Overtake(fetches, Len(fetches) + 1)
       /\ ev' = [op |-> "refreshCleared", by |-> "refreshSchedulers"]
  ELSE /\ Cardinality(Partials) < MaxPartials
       /\ state' = s
       /\ fetches' = Append(fetches, Pending(0, "refreshSchedulers", RefreshSchedulersRequest(s)))
       /\ ev' = [op |-> "refreshIssued", by |-> "refreshSchedulers",
                 request |-> RefreshSchedulersRequest(s)]

\* The fetch of a partial refresh (fetches[k]) returns a page of a list of `total` items.
RefreshDone(k, total) ==
  /\ k \in Partials
  /\ LET f == fetches[k]
         s2 == IF f.kind = "schedulers"
               THEN RefreshSchedulersWrite(state, GetJobSchedulers(f.page, total))
               ELSE RefreshJobsWrite(state, GetJobs("latest", f.page, total))
     IN /\ state' = s2
        /\ ev' = PageWritten(f, TRUE)
  /\ fetches' = RemoveAt(Overtake(fetches, k), k)
  /\ UNCHANGED <<isRunning, intervalId, isPolling, polls, tracker, strayMetrics>>
  /\ Elsewhere

\* The fetch of a partial refresh throws.
RefreshFail(k, thrown) ==
  /\ k \in Partials
  /\ state' = RefreshCatch(state, thrown)
  /\ fetches' = RemoveAt(fetches, k)
  /\ ev' = [op |-> "refreshFailed", by |-> fetches[k].by]
  /\ UNCHANGED <<isRunning, intervalId, isPolling, polls, tracker, strayMetrics>>
  /\ Elsewhere

(***************************************************************************)
(* The Store's intents (src/src/state.ts) and the handlers that call them  *)
(* (App.handleKeyPress, src/src/app.ts 193-285; the SELECTION_CHANGED      *)
(* handlers of the list widgets).  No modal or overlay is open.            *)
(***************************************************************************)
ToggleFocus(s) == SetState(s, [focusedPane |-> IF s.focusedPane = "queues" THEN "jobs" ELSE "queues"])
NextPage(s) ==
  IF s.jobsPage < s.jobsTotalPages
  THEN SetState(s, [jobsPage |-> s.jobsPage + 1, selectedJobIndex |-> 0]) ELSE s
PrevPage(s) ==
  IF s.jobsPage > 1
  THEN SetState(s, [jobsPage |-> s.jobsPage - 1, selectedJobIndex |-> 0]) ELSE s
NextSchedulerPage(s) ==
  IF s.schedulersPage < s.schedulersTotalPages
  THEN SetState(s, [schedulersPage |-> s.schedulersPage + 1, selectedSchedulerIndex |-> 0]) ELSE s
PrevSchedulerPage(s) ==
  IF s.schedulersPage > 1
  THEN SetState(s, [schedulersPage |-> s.schedulersPage - 1, selectedSchedulerIndex |-> 0]) ELSE s
SetJobsStatus(s, status) ==
  SetState(s, [jobsStatus |-> status, jobsPage |-> 1, selectedJobIndex |-> 0])

PollingUntouched == UNCHANGED <<isRunning, intervalId, isPolling, polls, tracker, strayMetrics>>

\* case "tab"
KeyTab ==
  /\ state' = ToggleFocus(state)
  /\ ev' = NoEvent
  /\ UNCHANGED fetches /\ PollingUntouched
  /\ Elsewhere

\* case "return" / "enter" with the queue pane focused
KeyEnterQueues ==
  /\ state.focusedPane = "queues"
  /\ state' = SetState(state, [focusedPane |-> "jobs"])
  /\ ev' = NoEvent
  /\ UNCHANGED fetches /\ PollingUntouched
  /\ Elsewhere

\* case "left"
KeyLeft ==
  /\ state.focusedPane = "jobs"
  /\ IF state.jobsStatus = "schedulers"
     THEN RefreshSchedulers(PrevSchedulerPage(state))
     ELSE RefreshJobs(PrevPage(state))
  /\ PollingUntouched
  /\ Elsewhere

\* case "right"
KeyRight ==
  /\ state.focusedPane = "jobs"
  /\ IF state.jobsStatus = "schedulers"
     THEN RefreshSchedulers(NextSchedulerPage(state))
     ELSE RefreshJobs(NextPage(state))
  /\ PollingUntouched
  /\ Elsewhere

\* case "1" .. "7": getStatusFromKey, setJobsStatus, refreshJobs
KeyStatus(key) ==
  /\ key \in DOMAIN STATUS_OPTIONS
  /\ LET newStatus == STATUS_OPTIONS[key]
         s1 == SetJobsStatus(state, newStatus)
         s2 == IF newStatus = "schedulers"
               THEN SetState(s1, [selectedSchedulerIndex |-> 0, schedulersPage |-> 1])
               ELSE s1
     IN RefreshJobs(s2)
  /\ PollingUntouched
  /\ Elsewhere

\* createQueueList: SELECTION_CHANGED(index) of the focused queue list
QueueSelectionChanged(index) ==
  /\ state.focusedPane = "queues"
  /\ index + 1 \in DOMAIN state.queues
  /\ state.selectedQueueIndex # index
  /\ RefreshJobs(SetState(state, [selectedQueueIndex |-> index, selectedJobIndex |-> 0,
                                  jobsPage |-> 1]))
  /\ PollingUntouched
  /\ Elsewhere

\* createJobList: SELECTION_CHANGED(index) of the focused job list
JobSelectionChanged(index) ==
  /\ state.focusedPane = "jobs" /\ state.jobsStatus # "schedulers"
  /\ index + 1 \in DOMAIN state.jobs
  /\ state.selectedJobIndex # index
  /\ state' = SetState(state, [selectedJobIndex |-> index])
  /\ ev' = NoEvent
  /\ UNCHANGED fetches /\ PollingUntouched
  /\ Elsewhere

\* createSchedulerList: SELECTION_CHANGED(index) of the focused scheduler list
SchedulerSelectionChanged(index) ==
  /\ state.focusedPane = "jobs" /\ state.jobsStatus = "schedulers"
  /\ index + 1 \in DOMAIN state.schedulers
  /\ state.selectedSchedulerIndex # index
  /\ state' = SetState(state, [selectedSchedulerIndex |-> index])
  /\ ev' = NoEvent
  /\ UNCHANGED fetches /\ PollingUntouched
  /\ Elsewhere

(***************************************************************************)
(* PollingManager.start / refresh and the interval timer                   *)
(***************************************************************************)
\* A start() without its first line
StartGuardDropped == FALSE

\* if (this.isRunning) return;
StartGuard == isRunning

\* start(), called by App.start: one poll, then the timer is armed and its
\* handle kept in intervalId.
Start ==
  /\ ~StartGuard
  /\ isRunning' = TRUE
  /\ Poll
  /\ intervalId' = TRUE
  /\ armed' = armed + 1
  /\ UNCHANGED <<listeners, held, metricsTracker, now, updates, queueJobs,
               config, queueNamesCache, redisKeys, discoveries, brokerHolds, lookups,
               finished, confirmed>>

\* start() on a running scheduler returns at once.
StartRunning ==
  /\ StartGuard
  /\ ev' = [op |-> "startIgnored"]
  /\ UNCHANGED <<state, isRunning, intervalId, isPolling, polls, fetches, tracker, strayMetrics>>
  /\ Elsewhere

\* stop(): the timer intervalId refers to is cleared; a poll in flight goes on.
Stop ==
  /\ intervalId' = FALSE
  /\ armed' = IF intervalId THEN armed - 1 ELSE armed
  /\ isRunning' = FALSE
  /\ ev' = [op |-> "stop"]
  /\ UNCHANGED <<state, isPolling, polls, fetches, tracker, strayMetrics>>
  /\ UNCHANGED <<listeners, held, metricsTracker, now, updates, queueJobs,
               config, queueNamesCache, redisKeys, discoveries, brokerHolds, lookups,
               finished, confirmed>>

\* An armed interval timer fires: setInterval(() => this.poll(), pollInterval)
Tick ==
  /\ armed > 0
  /\ Poll
  /\ UNCHANGED <<isRunning, intervalId>>
  /\ Elsewhere

\* Key "r": await pollingManager.refresh()
KeyRefresh ==
  /\ Poll
  /\ UNCHANGED <<isRunning, intervalId>>
  /\ Elsewhere

Init ==
  /\ state = InitialState
  /\ isRunning = FALSE
  /\ intervalId = FALSE
  /\ isPolling = FALSE
  /\ polls = [i \in 1..MaxPolls |-> IdlePoll]
  /\ fetches = <<>>
  /\ tracker = [hasBaseline |-> FALSE]
  /\ strayMetrics = FALSE
  /\ ev = NoEvent
  /\ listeners = <<>>
  /\ held = NothingHeld
  /\ metricsTracker = NewMetricsTracker
  /\ now = 0
  /\ updates = 0
  /\ queueJobs = NoJobs
  /\ armed = 0
  /\ config = <<>>
  /\ queueNamesCache = <<>>
  /\ redisKeys = {}
  /\ discoveries = [c \in Callers |-> IdleDiscovery]
  /\ brokerHolds = [jobs |-> {}, schedulers |-> {}]
  /\ lookups = {}
  /\ finished = NoneFinished
  /\ confirmed = {}

\* The calls of poll(): start(), the interval timer and the manual refresh.
PollCalls ==
  \/ Start
  \/ Tick
  \/ KeyRefresh

\* The remote calls of a poll that return, with the queue names the broker holds
\* when the summaries (StatNames) and the metrics (MetricNames) are collected.
PollReturns(StatNames, MetricNames) ==
  \/ \E i \in 1..MaxPolls, names \in StatNames : StatsDone(i, names)
  \/ \E i \in 1..MaxPolls, names \in MetricNames : MetricsDone(i, names)
  \/ \E k \in DOMAIN fetches, total \in Totals : PollPageDone(k, total)

\* The remote calls of a poll that throw, and what is left of Promise.all after one did.
PollThrows(Throws) ==
  \/ \E i \in 1..MaxPolls, which \in {"stats", "metrics"}, thrown \in Throws :
       SummariesFail(i, which, thrown)
  \/ StrayMetricsDone
  \/ \E k \in DOMAIN fetches, thrown \in Throws : PollPageFail(k, thrown)

\* The poll scheduler alone, over every answer of the broker.
NextPoll ==
  \/ PollCalls
  \/ PollReturns(SUBSET QueueNames, SUBSET QueueNames)
  \/ PollThrows(Thrown)

SpecPoll == Init /\ [][NextPoll]_vars

\* One way a remote call fails
Refused == {thrown \in Thrown : thrown.isError}

\* Remote calls return or throw: an awaited call of a poll does not stay pending
\* forever.  The broker holds no queue or every queue, and fails in one way.
PollAnswers == PollReturns({{}, QueueNames}, {QueueNames}) \/ PollThrows(Refused)

NextPollFair == PollCalls \/ PollAnswers

SpecPollFair == Init /\ [][NextPollFair]_vars /\ WF_vars(PollAnswers)

\* The scheduler started and stopped at will, its timer, and a broker as above.
NextStartStop ==
  \/ Start
  \/ StartRunning
  \/ Stop
  \/ Tick
  \/ PollAnswers

SpecStartStop == Init /\ [][NextStartStop]_vars

\* The operator's keys and queue selections, and the partial refreshes they start.
OperatorSteps(Keys) ==
  \/ KeyTab
  \/ KeyEnterQueues
  \/ KeyLeft
  \/ KeyRight
  \/ \E key \in Keys : KeyStatus(key)
  \/ \E index \in 0..(Len(QueueNameOrder) - 1) : QueueSelectionChanged(index)
  \/ \E k \in DOMAIN fetches, total \in Totals : RefreshDone(k, total)

\* The keys of the job views (STATUS_OPTIONS without the scheduler view)
JobViewKeys == {key \in DOMAIN STATUS_OPTIONS : STATUS_OPTIONS[key] \in JobStatuses}

\* The queues a broker holds whose queues are created in the order of QueueNameOrder
CreatedQueues == {{QueueNameOrder[k] : k \in 1..n} : n \in 0..Len(QueueNameOrder)}

\* The dashboard in its job views: the poll scheduler and the operator's keys
\* and queue selections, over a broker whose calls return or throw.
Next ==
  \/ PollCalls
  \/ PollReturns(CreatedQueues, {QueueNames})
  \/ PollThrows(Refused)
  \/ OperatorSteps(JobViewKeys)
  \/ \E k \in DOMAIN fetches, thrown \in Refused : RefreshFail(k, thrown)

Spec == Init /\ [][Next]_vars

\* The dashboard with the scheduler view (key 7) and the selections in the job
\* and scheduler lists as well, over a broker that holds every queue of QueueNames
\* and answers every call.
NextSchedulerView ==
  \/ PollCalls
  \/ PollReturns({QueueNames}, {QueueNames})
  \/ OperatorSteps(DOMAIN STATUS_OPTIONS)
  \/ \E index \in 0..(PageSize - 1) : JobSelectionChanged(index)
  \/ \E index \in 0..(PageSize - 1) : SchedulerSelectionChanged(index)

SpecSchedulerView == Init /\ [][NextSchedulerView]_vars

(***************************************************************************)
(* StateManager as its callers see it: src/src/state.ts 85-109             *)
(***************************************************************************)
\* Bound: the listeners that may subscribe (the App subscribes one, app.ts 86-88).
Listeners == {"render", "other"}

\* The list fields of AppState: arrays, which a copy of the state shares
ListFields == {"queues", "jobs", "schedulers"}

\* Arguments of setState, as the poll and the key handlers pass them:
\* app.ts 552, 619, 628-632, 563-569, 597-606, and state.ts nextPage.
Merges ==
  << [isLoading |-> TRUE],
     [isLoading |-> FALSE],
     [connected |-> FALSE, error |-> "refused", isLoading |-> FALSE],
     [queues |-> GetAllQueueStats(QueueNames),
      globalMetrics |-> <<[queueCount |-> Cardinality(QueueNames), rates |-> "zero"]>>,
      connected |-> TRUE, error |-> Null, selectedQueueIndex |-> 0],
     [jobs |-> Window(1, MaxTotal), jobsTotal |-> MaxTotal,
      jobsTotalPages |-> CeilDiv(MaxTotal, PageSize),
      schedulers |-> <<>>, schedulersTotal |-> 0, schedulersTotalPages |-> 0],
     [jobsPage |-> 2, selectedJobIndex |-> 0] >>

\* A setState that notifies before it merges
NotifiedBeforeMerge(before, merged) == before

\* setState: this.state is assigned (line 91) before notifyListeners() runs
\* (line 92), and each listener is passed this.state (line 103).
NotifiedState(before, merged) == merged

\* A notification without the try/catch: what a listener throws leaves the loop
EscapesUncaught(threw) == threw

\* try { listener(this.state) } catch (error) { console.error(...) }: what a
\* listener throws never leaves the loop (threw: the listener threw)
Escapes(threw) == FALSE

\* notifyListeners(): for (const listener of this.listeners), in the insertion
\* order of the Set. The result is the calls made, in order, and whether an
\* exception left the loop; `throwers` are the listeners that throw this time.
RECURSIVE NotifyListeners(_, _, _)
NotifyListeners(ls, s, throwers) ==
  IF ls = <<>>
  THEN [calls |-> <<>>, propagated |-> FALSE]
  ELSE LET threw == Head(ls) \in throwers
           call == [listener |-> Head(ls), snapshot |-> s, threw |-> threw]
       IN IF Escapes(threw)
          THEN [calls |-> <<call>>, propagated |-> TRUE]
          ELSE LET rest == NotifyListeners(Tail(ls), s, throwers)
               IN [calls |-> <<call>> \o rest.calls, propagated |-> rest.propagated]

\* this.listeners.add(listener): a Set keeps one entry per listener, in the
\* order of first insertion
SetAdd(ls, l) == IF \E i \in DOMAIN ls : ls[i] = l THEN ls ELSE Append(ls, l)
\* this.listeners.delete(listener)
SetDelete(ls, l) == SelectSeq(ls, LAMBDA x : x # l)

\* What the steps of the Store's callers leave alone
StoreOnly ==
  UNCHANGED <<isRunning, intervalId, isPolling, polls, fetches, tracker, strayMetrics,
              metricsTracker, now, updates, queueJobs, armed, config,
              queueNamesCache, redisKeys, discoveries, brokerHolds, lookups,
              finished, confirmed>>

\* subscribe(listener)
Subscribe(l) ==
  /\ listeners' = SetAdd(listeners, l)
  /\ ev' = [op |-> "subscribe", listener |-> l]
  /\ UNCHANGED <<state, held>>
  /\ StoreOnly

\* the handle subscribe() returned: () => this.listeners.delete(listener)
Unsubscribe(l) ==
  /\ listeners' = SetDelete(listeners, l)
  /\ ev' = [op |-> "unsubscribe", listener |-> l]
  /\ UNCHANGED <<state, held>>
  /\ StoreOnly

\* setState(Merges[k]) with its notification; the listeners in `throwers` throw.
\* A listener that was called may keep its argument (`kept`), which is
\* this.state itself; a value held from before is no more the Store's object,
\* and shares the arrays the merge did not replace.
SetStateCall(k, throwers, kept) ==
  LET merged == SetState(state, Merges[k])
      n == NotifyListeners(listeners, NotifiedState(state, merged), throwers)
  IN /\ state' = merged
     /\ held' = IF kept /\ n.calls # <<>>
                THEN [has |-> TRUE, same |-> TRUE, shares |-> ListFields]
                ELSE IF held.has
                     THEN [held EXCEPT !.same = FALSE, !.shares = @ \ DOMAIN Merges[k]]
                     ELSE held
     /\ ev' = [op |-> "setState", partial |-> Merges[k],
               throwers |-> {l \in throwers : \E i \in DOMAIN listeners : listeners[i] = l},
               calls |-> n.calls, propagated |-> n.propagated]
     /\ UNCHANGED listeners
     /\ StoreOnly

\* getState(): return { ...this.state }, a new object whose list fields are
\* the arrays of this.state
GetStateCall ==
  /\ held' = [has |-> TRUE, same |-> FALSE, shares |-> ListFields]
  /\ ev' = [op |-> "getState"]
  /\ UNCHANGED <<state, listeners>>
  /\ StoreOnly

\* A holder assigns a field of the value it holds (value.isLoading = ...): the
\* Store's field changes when the value is the Store's own object.
HolderAssigns ==
  /\ held.has
  /\ state' = IF held.same THEN [state EXCEPT !.isLoading = ~@] ELSE state
  /\ ev' = [op |-> "holderAssigns"]
  /\ UNCHANGED <<listeners, held>>
  /\ StoreOnly

\* A holder removes the last item of a list of the value it holds
\* (value.queues.pop()) while that array is still the Store's; what it does to
\* an array the Store has replaced since is not seen by the Store.
HolderMutates(f) ==
  /\ held.has
  /\ f \in held.shares
  /\ state[f] # <<>>
  /\ state' = [state EXCEPT ![f] = SubSeq(@, 1, Len(@) - 1)]
  /\ ev' = [op |-> "holderMutates", field |-> f]
  /\ UNCHANGED <<listeners, held>>
  /\ StoreOnly

NextStore ==
  \/ \E l \in Listeners : Subscribe(l)
  \/ \E l \in Listeners : Unsubscribe(l)
  \/ \E k \in DOMAIN Merges, throwers \in SUBSET Listeners, kept \in BOOLEAN :
       SetStateCall(k, throwers, kept)
  \/ GetStateCall
  \/ HolderAssigns
  \/ \E f \in ListFields : HolderMutates(f)

SpecStore == Init /\ [][NextStore]_vars

(***************************************************************************)
(* MetricsTracker, its arithmetic: src/unnamed/part_001 23-120             *)
(* A rate is an exact fraction <<numerator, denominator>> in lowest terms, *)
(* with a positive denominator, where the source holds a double.           *)
(***************************************************************************)
Abs(x) == IF x < 0 THEN -x ELSE x

RECURSIVE GCD(_, _)
GCD(a, b) == IF b = 0 THEN a ELSE GCD(b, a % b)

\* The fraction n/d (d > 0) in lowest terms
Rat(n, d) == LET g == GCD(Abs(n), d) IN <<n \div g, d \div g>>
RatAdd(x, y) == Rat(x[1] * y[2] + y[1] * x[2], x[2] * y[2])
RatMul(x, y) == Rat(x[1] * y[1], x[2] * y[2])
\* x / y for y > 0
RatDiv(x, y) == Rat(x[1] * y[2], x[2] * y[1])
RatLess(x, y) == x[1] * y[2] < y[1] * x[2]

RECURSIVE Pow10(_)
Pow10(k) == IF k = 0 THEN 1 ELSE 10 * Pow10(k - 1)

\* parseFloat(x.toFixed(digits)): x rounded to `digits` decimals, a half rounded
\* away from zero.
ToFixed(x, digits) ==
  LET scale == Pow10(digits)
      q == (2 * Abs(x[1]) * scale + x[2]) \div (2 * x[2])
  IN Rat(IF x[1] < 0 THEN -q ELSE q, scale)

\* elapsedMs / 60000
MsPerMin == 60000
\* smoothed / 60: the rate per second
SecPerMin == 60
\* if (elapsedMin < 0.001)
MinElapsedMin == <<1, 1000>>
\* smoothingFactor = 0.3
SmoothingFactor == <<3, 10>>

\* Date.now() - lastPollTime between two update calls, in milliseconds: the
\* wall clock may stand still or step back.
Elapsed == {-1, 0, 59, 60, MsPerMin}

\* jobCounts as getGlobalMetrics sums them: non-negative counts
JobCounts ==
  { [wait |-> 0, active |-> 0, delayed |-> 0, completed |-> 0, failed |-> 0],
    [wait |-> 0, active |-> 0, delayed |-> 0, completed |-> 10, failed |-> 0],
    [wait |-> 3, active |-> 1, delayed |-> 1, completed |-> 4, failed |-> 1] }

Rates(enqueuedPerMin, enqueuedPerSec, dequeuedPerMin, dequeuedPerSec) ==
  [enqueuedPerMin |-> enqueuedPerMin, enqueuedPerSec |-> enqueuedPerSec,
   dequeuedPerMin |-> dequeuedPerMin, dequeuedPerSec |-> dequeuedPerSec]

\* currentTotalJobs and currentProcessedJobs
TotalJobs(c) == c.wait + c.active + c.delayed + c.completed + c.failed
ProcessedJobs(c) == c.completed + c.failed

\* A delta that is not clamped
DeltaUnclamped(d) == d

\* Math.max(0, current - last)
ClampDelta(d) == Max(0, d)

\* A rate that is not smoothed
EmaUnsmoothed(instant, smoothed) == instant

\* smoothingFactor * instant + (1 - smoothingFactor) * smoothed
Ema(instant, smoothed) ==
  RatAdd(RatMul(SmoothingFactor, instant),
         RatMul(RatAdd(<<1, 1>>, RatMul(<<-1, 1>>, SmoothingFactor)), smoothed))

\* A baseline that is kept when the count went down
BaselineKeptOnDrop(last, current) == Max(last, current)

\* this.lastTotalJobs = currentTotalJobs; this.lastProcessedJobs = currentProcessedJobs
NewBaseline(last, current) == current

\* A short-interval branch that records the observation
ShortIntervalRebased(t, nowMs, c) ==
  [t EXCEPT !.lastPollTime = <<nowMs>>, !.lastTotalJobs = TotalJobs(c),
            !.lastProcessedJobs = ProcessedJobs(c)]

\* The short-interval branch returns before any field is assigned.
ShortInterval(t, nowMs, c) == t

\* A reset that keeps the time of the last observation
ResetKeepsTime(t) == [NewMetricsTracker EXCEPT !.lastPollTime = t.lastPollTime]

\* MetricsTracker.reset()
MetricsReset(t) == NewMetricsTracker

\* MetricsTracker.update(jobCounts) at Date.now() = nowMs
MetricsUpdate(t, nowMs, c) ==
  IF t.lastPollTime = <<>>
  THEN [rates |-> Rates(<<0, 1>>, <<0, 1>>, <<0, 1>>, <<0, 1>>),
        tracker |-> [t EXCEPT !.lastPollTime = <<nowMs>>, !.lastTotalJobs = TotalJobs(c),
                              !.lastProcessedJobs = ProcessedJobs(c)]]
  ELSE LET elapsedMs == nowMs - t.lastPollTime[1]
           elapsedMin == Rat(elapsedMs, MsPerMin)
       IN IF RatLess(elapsedMin, MinElapsedMin)
          THEN [rates |-> Rates(t.smoothedEnqueuedPerMin,
                                RatDiv(t.smoothedEnqueuedPerMin, <<SecPerMin, 1>>),
                                t.smoothedDequeuedPerMin,
                                RatDiv(t.smoothedDequeuedPerMin, <<SecPerMin, 1>>)),
                tracker |-> ShortInterval(t, nowMs, c)]
          ELSE LET jobsEnqueued == ClampDelta(TotalJobs(c) - t.lastTotalJobs)
                   jobsDequeued == ClampDelta(ProcessedJobs(c) - t.lastProcessedJobs)
                   enq == Ema(RatDiv(<<jobsEnqueued, 1>>, elapsedMin), t.smoothedEnqueuedPerMin)
                   deq == Ema(RatDiv(<<jobsDequeued, 1>>, elapsedMin), t.smoothedDequeuedPerMin)
               IN [rates |-> Rates(ToFixed(enq, 1), ToFixed(RatDiv(enq, <<SecPerMin, 1>>), 2),
                                   ToFixed(deq, 1), ToFixed(RatDiv(deq, <<SecPerMin, 1>>), 2)),
                   tracker |-> [lastPollTime |-> <<nowMs>>,
                                lastTotalJobs |-> NewBaseline(t.lastTotalJobs, TotalJobs(c)),
                                lastProcessedJobs |->
                                  NewBaseline(t.lastProcessedJobs, ProcessedJobs(c)),
                                smoothedEnqueuedPerMin |-> enq,
                                smoothedDequeuedPerMin |-> deq]]

\* History: the update recorded in event e, made at time `at`, passed the
\* minimum-interval check with a total below the baseline it found.
Dropped(e, at) ==
  /\ e.op = "update"
  /\ e.before.lastPollTime # <<>>
  /\ (at - e.before.lastPollTime[1]) * 1000 >= MsPerMin
  /\ TotalJobs(e.counts) < e.before.lastTotalJobs

\* What the tracker's steps leave alone
TrackerOnly ==
  UNCHANGED <<state, isRunning, intervalId, isPolling, polls, fetches, strayMetrics,
              listeners, held, queueJobs, armed, config, queueNamesCache,
              redisKeys, discoveries, brokerHolds, lookups, finished,
              confirmed>>

\* metricsTracker.update(c), `elapsed` milliseconds of wall clock after the
\* call before it; `tracker` follows as the poll scheduler sees it, and the
\* history keeps which operation the call follows, the fields it found and,
\* when the update before it saw the total drop, the total it dropped to.
Update(elapsed, c) ==
  /\ updates < MaxUpdates
  /\ updates' = updates + 1
  /\ now' = now + elapsed
  /\ metricsTracker' = MetricsUpdate(metricsTracker, now', c).tracker
  /\ tracker' = TrackerUpdate(tracker).tracker
  /\ ev' = [op |-> "update", counts |-> c, elapsed |-> elapsed, follows |-> ev.op,
            rates |-> MetricsUpdate(metricsTracker, now', c).rates,
            before |-> metricsTracker,
            droppedTo |-> IF Dropped(ev, now) THEN <<TotalJobs(ev.counts)>> ELSE <<>>]
  /\ TrackerOnly

\* resetMetricsTracker()
Reset ==
  /\ metricsTracker' = MetricsReset(metricsTracker)
  /\ tracker' = TrackerReset
  /\ ev' = [op |-> "reset"]
  /\ UNCHANGED <<now, updates>>
  /\ TrackerOnly

NextTracker ==
  \/ \E elapsed \in Elapsed, c \in JobCounts : Update(elapsed, c)
  \/ Reset

SpecTracker == Init /\ [][NextTracker]_vars

(***************************************************************************)
(* getJobs over the broker's lists: src/unnamed/part_002 40-146            *)
(***************************************************************************)
\* Bound: the creation timestamps of the jobs a queue may hold
Timestamps == {70, 80, 90, 100}
\* Bound: the pages requested
MaxPage == 3

\* queue.getActive(start, end) and its like: the items at positions start..end
\* (from 0, both included) of a list of the broker
Range(list, start, end) == SubSeq(list, start + 1, Min(end + 1, Len(list)))

\* arr.slice(start, end): positions start..end-1
Slice(arr, start, end) == SubSeq(arr, start + 1, Min(end, Len(arr)))

\* The place of x in a list sorted by (a, b) => b - a: after the items not smaller
RECURSIVE Insert(_, _)
Insert(sorted, x) ==
  IF sorted = <<>> THEN <<x>>
  ELSE IF Head(sorted) >= x THEN <<Head(sorted)>> \o Insert(Tail(sorted), x)
       ELSE <<x>> \o sorted

\* allJobs.sort((a, b) => (b.timestamp || 0) - (a.timestamp || 0)): a stable
\* sort by timestamp, newest first
RECURSIVE SortByTimestamp(_)
SortByTimestamp(arr) ==
  IF arr = <<>> THEN <<>>
  ELSE Insert(SortByTimestamp(SubSeq(arr, 1, Len(arr) - 1)), arr[Len(arr)])

\* [...active, ...waiting, ...]: the lists named by cats, one after the other
RECURSIVE Spread(_, _)
Spread(lists, cats) ==
  IF cats = <<>> THEN <<>> ELSE lists[Head(cats)] \o Spread(lists, Tail(cats))

\* counts.waiting + counts.active + ...: the broker's counts of the lists named
RECURSIVE CountOf(_, _)
CountOf(r, cats) ==
  IF cats = <<>> THEN 0 ELSE Len(r[Head(cats)]) + CountOf(r, Tail(cats))

\* A merged view that leaves the spread lists as they come
Unsorted(arr) == arr

\* The "latest" view sorts what it spread (line 79)
LatestOrder(arr) == SortByTimestamp(arr)

\* A view that slices one page off the end of what it fetched
SliceLastPage(arr, start, end) == Slice(arr, Max(0, Len(arr) - (end - start)), Len(arr))

\* jobs = allJobs.slice(start, end + 1)
PageSlice(arr, start, end) == Slice(arr, start, end)

\* The list a single-status view reads
CategoryOf(status) == status

\* A fetch of the page's own range from a category
PageRangeOnly(list, start, end) == Range(list, start, end)

\* queue.getActive(0, end) and its like, lines 70-75: whatever the page, a
\* category is fetched from its first job
PrefixRange(list, start, end) == Range(list, 0, end)

\* getJobs(queueName, status, page, pageSize) over the lists r of the queue
GetJobsOf(r, status, page, pageSize) ==
  LET start == (page - 1) * pageSize
      end == start + pageSize - 1
      prefix == [c \in DOMAIN r |-> PrefixRange(r[c], start, end)]
      found ==
        CASE status = "latest" ->
               [jobs |-> PageSlice(LatestOrder(Spread(prefix, Categories)), start, end + 1),
                total |-> CountOf(r, <<"waiting", "active", "completed", "failed",
                                       "delayed", "prioritized">>)]
          [] status = "wait" ->
               [jobs |-> PageSlice(Spread(prefix, <<"waiting", "prioritized">>), start, end + 1),
                total |-> CountOf(r, <<"waiting", "prioritized">>)]
          [] status \in {"active", "completed", "failed", "delayed"} ->
               [jobs |-> Range(r[CategoryOf(status)], start, end),
                total |-> CountOf(r, <<CategoryOf(status)>>)]
          [] OTHER -> [jobs |-> <<>>, total |-> 0]
  IN [jobs |-> found.jobs, total |-> found.total, page |-> page, pageSize |-> pageSize,
      totalPages |-> CeilDiv(found.total, pageSize)]

\* What the steps of getJobs and of the queue's producers leave alone
JobsOnly ==
  UNCHANGED <<state, isRunning, intervalId, isPolling, polls, fetches, tracker,
              strayMetrics, listeners, held, metricsTracker, now, updates,
              armed, config, queueNamesCache, redisKeys, discoveries,
              brokerHolds, lookups, finished, confirmed>>

\* A producer adds a job to one list of the queue.
AddJob(c, ts) ==
  /\ \A d \in DOMAIN queueJobs : \A k \in DOMAIN queueJobs[d] : queueJobs[d][k] # ts
  /\ queueJobs' = [queueJobs EXCEPT ![c] = Append(@, ts)]
  /\ ev' = [op |-> "jobAdded"]
  /\ JobsOnly

\* getJobs(name, status, page) while the queue's lists stay as they are
GetJobsCall(status, page) ==
  /\ ev' = [op |-> "getJobs", status |-> status,
            result |-> GetJobsOf(queueJobs, status, page, PageSize)]
  /\ UNCHANGED queueJobs
  /\ JobsOnly

NextJobs ==
  \/ \E c \in DOMAIN queueJobs, ts \in Timestamps : AddJob(c, ts)
  \/ \E status \in JobStatuses \cup {"schedulers"}, page \in 1..MaxPage :
       GetJobsCall(status, page)

SpecJobs == Init /\ [][NextJobs]_vars

(***************************************************************************)
(* discoverQueueNames and its cache: src/unnamed/part_000 9-17, 55-102     *)
(***************************************************************************)
\* QUEUE_NAMES_CACHE_TTL
QUEUE_NAMES_CACHE_TTL == 5000
\* Bound: the clock stops here
MaxClock == 10000
\* Bound: the steps of the clock between two events, around the cache's lifetime
ClockSteps == {QUEUE_NAMES_CACHE_TTL - 1, QUEUE_NAMES_CACHE_TTL}
\* Bound: what stands between "bull:" and ":meta" in the keys SCAN may return;
\* the last one holds a colon
KeyNames == {"a", "b", "a:b"}
\* Bound: the queue names of the configuration: none, or a list as the operator
\* typed it (parseQueueNames keeps its order and its repetitions)
ConfiguredNames == << <<>>, <<"b", "a">>, <<"a", "a">> >>

\* The key names that hold a colon
WithColon == {"a:b"}

\* queueName && !queueName.includes(":")
IsQueueName(n) == n # "" /\ n \notin WithColon

\* The keys of a key space that name a queue
QueueKeys(keys) == {key \in keys : IsQueueName(key)}

\* A cache that is never taken as fresh
CacheNeverFresh(cache, nowMs) == FALSE

\* queueNamesCache && now - queueNamesCache.timestamp < QUEUE_NAMES_CACHE_TTL
CacheFresh(cache, nowMs) ==
  cache # <<>> /\ nowMs - cache[1].timestamp < QUEUE_NAMES_CACHE_TTL

\* config.queueNames && config.queueNames.length > 0
Configured == Len(config[1].queueNames) > 0

\* Array.from(queueNames).toSorted(), queueNames a Set filled in the order of `found`
ToSorted(found) == SortedNames({found[k] : k \in DOMAIN found})

\* What the steps of discovery leave alone
DiscoveryOnly ==
  UNCHANGED <<isRunning, intervalId, isPolling, polls, fetches, tracker, strayMetrics,
              listeners, held, metricsTracker, updates, queueJobs, armed,
              brokerHolds, lookups, finished, confirmed>>

\* discoverQueueNames() returned `names` to caller c: getAllQueueStats maps them
\* to the summaries the poll writes to the Store (app.ts 563-569);
\* getGlobalMetrics counts them.
Discovered(c, names, scanned) ==
  /\ state' = IF c = "stats"
              THEN SummaryWrite(state, QueueStatsOf(names), state.globalMetrics)
              ELSE state
  /\ ev' = [op |-> "discovered", caller |-> c, names |-> names, scanned |-> scanned]

\* setConfig(loadConfig()) at start-up
LoadConfig(k) ==
  /\ config = <<>>
  /\ config' = <<[queueNames |-> ConfiguredNames[k]]>>
  /\ ev' = [op |-> "configLoaded"]
  /\ UNCHANGED <<state, queueNamesCache, redisKeys, discoveries, now>>
  /\ DiscoveryOnly

\* A queue is created at the broker (or a key that only looks like a queue's).
AddKey(n) ==
  /\ n \notin redisKeys
  /\ redisKeys' = redisKeys \cup {n}
  /\ ev' = [op |-> "keyAdded"]
  /\ UNCHANGED <<state, config, queueNamesCache, discoveries, now>>
  /\ DiscoveryOnly

\* Time passes.
ClockAdvances(d) ==
  /\ now + d <= MaxClock
  /\ now' = now + d
  /\ ev' = [op |-> "clock"]
  /\ UNCHANGED <<state, config, queueNamesCache, redisKeys, discoveries>>
  /\ DiscoveryOnly

\* discoverQueueNames() called by c, lines 55-70: the configured names, the
\* cached names, or a scan begun at `now`.
DiscoverCall(c) ==
  /\ config # <<>>
  /\ discoveries[c].pc = "idle"
  /\ IF Configured
     THEN /\ Discovered(c, config[1].queueNames, FALSE)
          /\ UNCHANGED discoveries
     ELSE IF CacheFresh(queueNamesCache, now)
          THEN /\ Discovered(c, queueNamesCache[1].names, FALSE)
               /\ UNCHANGED discoveries
          ELSE /\ discoveries' = [discoveries EXCEPT ![c] =
                                    [pc |-> "scanning", now |-> now, queueNames |-> <<>>,
                                     present |-> QueueKeys(redisKeys)]]
               /\ ev' = [op |-> "scanStarted", caller |-> c]
               /\ UNCHANGED state
  /\ UNCHANGED <<config, queueNamesCache, redisKeys, now>>
  /\ DiscoveryOnly

\* One key of a SCAN reply, lines 84-91 (SCAN may return a key more than once).
ScanKey(c, key) ==
  /\ discoveries[c].pc = "scanning"
  /\ key \in redisKeys
  /\ IsQueueName(key)
  /\ discoveries' = [discoveries EXCEPT ![c].queueNames = SetAdd(@, key)]
  /\ discoveries' # discoveries
  /\ ev' = [op |-> "scanned", caller |-> c]
  /\ UNCHANGED <<state, config, queueNamesCache, redisKeys, now>>
  /\ DiscoveryOnly

\* A key of a SCAN reply that names no queue: skipped.
ScanKeySkipped(c, key) ==
  /\ discoveries[c].pc = "scanning"
  /\ key \in redisKeys
  /\ ~IsQueueName(key)
  /\ ev' = [op |-> "keySkipped", caller |-> c]
  /\ UNCHANGED <<state, config, queueNamesCache, redisKeys, discoveries, now>>
  /\ DiscoveryOnly

\* A full SCAN iteration returns every key that was there from its start to its
\* end (d.present: keys are never removed); a key created meanwhile may be missed.
ScanComplete(d) ==
  \A key \in d.present : \E i \in DOMAIN d.queueNames : d.queueNames[i] = key

\* The cursor came back "0", lines 92-101: the names are sorted, cached with the
\* time the call began, and returned.
ScanDone(c) ==
  /\ discoveries[c].pc = "scanning"
  /\ ScanComplete(discoveries[c])
  /\ queueNamesCache' = <<[names |-> ToSorted(discoveries[c].queueNames),
                           timestamp |-> discoveries[c].now]>>
  /\ discoveries' = [discoveries EXCEPT ![c] = IdleDiscovery]
  /\ Discovered(c, ToSorted(discoveries[c].queueNames), TRUE)
  /\ UNCHANGED <<config, redisKeys, now>>
  /\ DiscoveryOnly

NextDiscovery ==
  \/ \E k \in DOMAIN ConfiguredNames : LoadConfig(k)
  \/ \E n \in KeyNames : AddKey(n)
  \/ \E d \in ClockSteps : ClockAdvances(d)
  \/ \E c \in Callers : DiscoverCall(c)
  \/ \E c \in Callers, key \in KeyNames : ScanKey(c, key)
  \/ \E c \in Callers, key \in KeyNames : ScanKeySkipped(c, key)
  \/ \E c \in Callers : ScanDone(c)

SpecDiscovery == Init /\ [][NextDiscovery]_vars

(***************************************************************************)
(* StateManager.goToPage / goToSchedulerPage: src/src/state.ts 182-189,    *)
(* 300-307                                                                 *)
(***************************************************************************)
\* Bound: the page numbers asked for, from below 1 to beyond every last page
PageNumbers == -1 .. MaxPage + 1

\* A clamp with no lower end
ClampUpperOnly(page, totalPages) == Min(page, totalPages)

\* Math.max(1, Math.min(page, totalPages))
ClampPage(page, totalPages) == Max(1, Min(page, totalPages))

GoToPage(s, page) ==
  SetState(s, [jobsPage |-> ClampPage(page, s.jobsTotalPages), selectedJobIndex |-> 0])
GoToSchedulerPage(s, page) ==
  SetState(s, [schedulersPage |-> ClampPage(page, s.schedulersTotalPages),
               selectedSchedulerIndex |-> 0])

\* What the calls of the paging intents leave alone
PagingOnly ==
  /\ UNCHANGED <<listeners, held>>
  /\ StoreOnly

\* goToPage(page)
GoToPageCall(page) ==
  /\ state' = GoToPage(state, page)
  /\ ev' = [op |-> "goToPage", page |-> page]
  /\ PagingOnly

\* goToSchedulerPage(page)
GoToSchedulerPageCall(page) ==
  /\ state' = GoToSchedulerPage(state, page)
  /\ ev' = [op |-> "goToSchedulerPage", page |-> page]
  /\ PagingOnly

SelectNextJob(s) ==
  IF s.selectedJobIndex < Len(s.jobs) - 1
  THEN SetState(s, [selectedJobIndex |-> s.selectedJobIndex + 1]) ELSE s
SelectNextScheduler(s) ==
  IF s.selectedSchedulerIndex < Len(s.schedulers) - 1
  THEN SetState(s, [selectedSchedulerIndex |-> s.selectedSchedulerIndex + 1]) ELSE s

\* selectNextJob() / selectNextScheduler()
SelectNextCall ==
  /\ \/ state' = SelectNextJob(state)
     \/ state' = SelectNextScheduler(state)
  /\ ev' = [op |-> "selectNext"]
  /\ PagingOnly

\* A partial refresh wrote the page it fetched for the page number of the Store,
\* the remote list holding `total` items.
PageRefreshed(total) ==
  /\ \/ state' = RefreshJobsWrite(state, GetJobs(state.jobsStatus, state.jobsPage, total))
     \/ state' = RefreshSchedulersWrite(state, GetJobSchedulers(state.schedulersPage, total))
  /\ ev' = [op |-> "pageRefreshed"]
  /\ PagingOnly

NextPaging ==
  \/ \E page \in PageNumbers : GoToPageCall(page)
  \/ \E page \in PageNumbers : GoToSchedulerPageCall(page)
  \/ SelectNextCall
  \/ \E total \in 0 .. MaxPage * PageSize : PageRefreshed(total)

SpecPaging == Init /\ [][NextPaging]_vars

(***************************************************************************)
(* The detail overlays and the delete dialog: src/src/state.ts 208-230,    *)
(* 309-322; App.handleKeyPress and its handlers, src/src/app.ts 139-364;   *)
(* getJobDetail / deleteJob (unnamed/part_002 151-195) and                 *)
(* getJobSchedulerDetail (unnamed/part_000 267-350).  A detail is null     *)
(* (<<>>) or one record (<<d>>).                                           *)
(***************************************************************************)
\* Bound: the job ids and the scheduler keys of the queue; the delayed job a
\* scheduler produced next carries the scheduler's number as its id
JobIds == {1, 2}
SchedulerKeys == {1}
\* Bound: the lookups awaited at one time
MaxLookups == 2

\* The listed items of a set of ids, in ascending order
Listed(S) == SelectSeq([k \in 1 .. Cardinality(JobIds) |-> k], LAMBDA n : n \in S)

\* getSelectedQueue / getSelectedJob / getSelectedScheduler: arr[index] ?? null
Selected(arr, index) == IF index + 1 \in DOMAIN arr THEN <<arr[index + 1]>> ELSE <<>>

\* A closeJobDetail() that hides the overlay and keeps the record
CloseKeepsDetail(s) == SetState(s, [showJobDetail |-> FALSE])

OpenJobDetail(s, detail) == SetState(s, [jobDetail |-> <<detail>>, showJobDetail |-> TRUE])
CloseJobDetail(s) == SetState(s, [jobDetail |-> <<>>, showJobDetail |-> FALSE])
OpenSchedulerDetail(s, detail) ==
  SetState(s, [schedulerDetail |-> <<detail>>, showSchedulerDetail |-> TRUE])
CloseSchedulerDetail(s) ==
  SetState(s, [schedulerDetail |-> <<>>, showSchedulerDetail |-> FALSE])
ShowDeleteConfirm(s) == SetState(s, [showConfirmDelete |-> TRUE])
HideDeleteConfirm(s) == SetState(s, [showConfirmDelete |-> FALSE])

\* getJobDetail(queue, jobId) answered by the broker: the record, or null
GetJobDetail(broker, jobId) == IF jobId \in broker.jobs THEN <<[id |-> jobId]>> ELSE <<>>

\* getJobSchedulerDetail(queue, key) answered by the broker: the record with the
\* next delayed job of the scheduler when there is one, or null
GetJobSchedulerDetail(broker, key) ==
  IF key \in broker.schedulers
  THEN <<[key |-> key, nextJob |-> IF key \in broker.jobs THEN <<[id |-> key]>> ELSE <<>>]>>
  ELSE <<>>

\* A deleteJob() that answers a missing job with null
DeleteAnswersNull(broker, jobId) == IF jobId \in broker.jobs THEN "true" ELSE Null

\* deleteJob(queue, jobId) answered by the broker: if (!job) return false; ... return true
DeleteJob(broker, jobId) == IF jobId \in broker.jobs THEN "true" ELSE "false"

\* What a lookup returned, as the caller can tell it apart: null or an object
Returned(result) == IF result = <<>> THEN Null ELSE "object"

\* What the steps of the overlays and the delete dialog leave alone
DetailFrame ==
  UNCHANGED <<isRunning, intervalId, isPolling, polls, fetches, tracker, strayMetrics,
              listeners, held, metricsTracker, now, updates, queueJobs, armed,
              config, queueNamesCache, redisKeys, discoveries, finished>>

\* What the steps that neither show nor hide the delete dialog, nor confirm
\* in it, leave alone
DetailOnly == DetailFrame /\ UNCHANGED confirmed

\* The confirmations of the dialog on screen after a step: `ids` while the
\* dialog stays, none once it is hidden
Confirmations(s, ids) == IF s.showConfirmDelete THEN ids ELSE {}

\* A dispatch that lets the navigation keys through under a detail overlay
NoModal(s) == ~s.showConfirmDelete /\ ~s.showPageJump

\* The four early returns of handleKeyPress passed: no dialog, modal or overlay
NoOverlay(s) ==
  ~s.showConfirmDelete /\ ~s.showPageJump /\ ~s.showJobDetail /\ ~s.showSchedulerDetail

\* A handler begins to await a lookup
Awaits(by, id) ==
  /\ Cardinality(lookups) < MaxLookups
  /\ lookups' = lookups \cup {[by |-> by, id |-> id]}
  /\ ev' = [op |-> "awaits", by |-> by]
  /\ UNCHANGED state

\* A handler returned at once
Ignored(by) ==
  /\ ev' = [op |-> "ignored", by |-> by]
  /\ UNCHANGED <<state, lookups>>

\* A producer or a scheduler adds a job or a scheduler at the broker; a worker,
\* a retention rule or another client removes one.
BrokerAdds(kind, id) ==
  /\ id \notin brokerHolds[kind]
  /\ brokerHolds' = [brokerHolds EXCEPT ![kind] = @ \cup {id}]
  /\ ev' = [op |-> "added"]
  /\ UNCHANGED <<state, lookups>>
  /\ DetailOnly
BrokerRemoves(kind, id) ==
  /\ id \in brokerHolds[kind]
  /\ brokerHolds' = [brokerHolds EXCEPT ![kind] = @ \ {id}]
  /\ ev' = [op |-> "removed"]
  /\ UNCHANGED <<state, lookups>>
  /\ DetailOnly

\* A poll or a partial refresh writes what it fetched: the summaries of the one
\* queue, or the page of jobs or of schedulers the broker holds.
ListsWritten ==
  /\ \/ state' = SummaryWrite(state, QueueStatsOf(<<"a">>), state.globalMetrics)
     \/ state' = RefreshJobsWrite(state,
                   [jobs |-> Listed(brokerHolds.jobs),
                    total |-> Cardinality(brokerHolds.jobs),
                    totalPages |-> CeilDiv(Cardinality(brokerHolds.jobs), PageSize)])
     \/ state' = RefreshSchedulersWrite(state,
                   [schedulers |-> Listed(brokerHolds.schedulers),
                    total |-> Cardinality(brokerHolds.schedulers),
                    totalPages |-> CeilDiv(Cardinality(brokerHolds.schedulers), PageSize)])
  /\ ev' = [op |-> "listsWritten"]
  /\ UNCHANGED <<brokerHolds, lookups>>
  /\ DetailOnly

\* case "tab", and case "1" .. "7" with its two Store writes (the refreshJobs()
\* that follows writes its page as a step of ListsWritten)
KeyPlain(key) ==
  /\ NoOverlay(state)
  /\ \/ key = "tab" /\ state' = ToggleFocus(state)
     \/ key \in {"1", "7"}
        /\ state' = IF STATUS_OPTIONS[key] = "schedulers"
                    THEN SetState(SetJobsStatus(state, STATUS_OPTIONS[key]),
                                  [selectedSchedulerIndex |-> 0, schedulersPage |-> 1])
                    ELSE SetJobsStatus(state, STATUS_OPTIONS[key])
  /\ ev' = [op |-> "key"]
  /\ UNCHANGED <<brokerHolds, lookups>>
  /\ DetailOnly

\* case "return" / "enter": with the queue pane focused the job pane takes the
\* focus; with the job pane focused openSchedulerDetail() or openJobDetail()
\* runs up to its await.
KeyEnter ==
  /\ NoOverlay(state)
  /\ IF state.focusedPane # "jobs"
     THEN /\ state' = SetState(state, [focusedPane |-> "jobs"])
          /\ ev' = [op |-> "key"]
          /\ UNCHANGED lookups
     ELSE LET item == IF state.jobsStatus = "schedulers"
                      THEN Selected(state.schedulers, state.selectedSchedulerIndex)
                      ELSE Selected(state.jobs, state.selectedJobIndex)
              by == IF state.jobsStatus = "schedulers"
                    THEN "openSchedulerDetail" ELSE "openJobDetail"
          IN IF item = <<>> \/ Selected(state.queues, state.selectedQueueIndex) = <<>>
             THEN Ignored(by)
             ELSE Awaits(by, item[1])
  /\ UNCHANGED brokerHolds
  /\ DetailOnly

\* openJobDetail() after its await: getJobDetail answered
OpenJobDetailResumes(l) ==
  /\ l \in lookups /\ l.by = "openJobDetail"
  /\ LET detail == GetJobDetail(brokerHolds, l.id)
     IN /\ state' = IF detail # <<>> THEN OpenJobDetail(state, detail[1]) ELSE state
        /\ ev' = [op |-> "lookup", fn |-> "getJobDetail", by |-> l.by,
                  missing |-> l.id \notin brokerHolds.jobs, result |-> Returned(detail)]
  /\ lookups' = lookups \ {l}
  /\ UNCHANGED brokerHolds
  /\ DetailOnly

\* openSchedulerDetail() after its await: getJobSchedulerDetail answered
OpenSchedulerDetailResumes(l) ==
  /\ l \in lookups /\ l.by = "openSchedulerDetail"
  /\ LET detail == GetJobSchedulerDetail(brokerHolds, l.id)
     IN /\ state' = IF detail # <<>> THEN OpenSchedulerDetail(state, detail[1]) ELSE state
        /\ ev' = [op |-> "lookup", fn |-> "getJobSchedulerDetail", by |-> l.by,
                  missing |-> l.id \notin brokerHolds.schedulers,
                  result |-> Returned(detail)]
  /\ lookups' = lookups \ {l}
  /\ UNCHANGED brokerHolds
  /\ DetailOnly

\* The keys of the scheduler overlay: escape closes it, "j" runs
\* openSchedulerNextJob() up to its await.
KeySchedulerDetail(key) ==
  /\ ~state.showConfirmDelete /\ ~state.showPageJump
  /\ ~state.showJobDetail /\ state.showSchedulerDetail
  /\ \/ /\ key = "escape"
        /\ state' = CloseSchedulerDetail(state)
        /\ ev' = [op |-> "closed", overlay |-> "scheduler"]
        /\ UNCHANGED lookups
     \/ /\ key = "j"
        /\ IF \/ state.schedulerDetail = <<>>
              \/ state.schedulerDetail[1].nextJob = <<>>
              \/ Selected(state.queues, state.selectedQueueIndex) = <<>>
           THEN Ignored("openSchedulerNextJob")
           ELSE Awaits("openSchedulerNextJob", state.schedulerDetail[1].nextJob[1].id)
  /\ UNCHANGED brokerHolds
  /\ DetailOnly

\* openSchedulerNextJob() after its await: closeSchedulerDetail(), openJobDetail(jobDetail)
OpenSchedulerNextJobResumes(l) ==
  /\ l \in lookups /\ l.by = "openSchedulerNextJob"
  /\ LET detail == GetJobDetail(brokerHolds, l.id)
     IN /\ state' = IF detail # <<>>
                    THEN OpenJobDetail(CloseSchedulerDetail(state), detail[1]) ELSE state
        /\ ev' = [op |-> "lookup", fn |-> "getJobDetail", by |-> l.by,
                  missing |-> l.id \notin brokerHolds.jobs, result |-> Returned(detail)]
  /\ lookups' = lookups \ {l}
  /\ UNCHANGED brokerHolds
  /\ DetailOnly

\* The keys of the job overlay: escape closes it, "d" opens the delete dialog.
KeyJobDetail(key) ==
  /\ ~state.showConfirmDelete /\ ~state.showPageJump /\ state.showJobDetail
  /\ \/ /\ key = "escape"
        /\ state' = CloseJobDetail(state)
        /\ ev' = [op |-> "closed", overlay |-> "job"]
     \/ /\ key = "d"
        /\ state' = ShowDeleteConfirm(state)
        /\ ev' = [op |-> "key"]
  /\ UNCHANGED <<brokerHolds, lookups>>
  /\ confirmed' = IF key = "d" THEN {} ELSE confirmed
  /\ DetailFrame

\* case "d" with no overlay open
KeyDelete ==
  /\ NoOverlay(state)
  /\ state.focusedPane = "jobs" /\ state.jobsStatus # "schedulers" /\ Len(state.jobs) > 0
  /\ state' = ShowDeleteConfirm(state)
  /\ ev' = [op |-> "key"]
  /\ UNCHANGED <<brokerHolds, lookups>>
  /\ confirmed' = {}
  /\ DetailFrame

\* The keys of the delete dialog: "n" and escape hide it, "y" runs
\* confirmDelete() up to its await.
KeyConfirmDelete(key) ==
  /\ state.showConfirmDelete
  /\ \/ /\ key \in {"n", "escape"}
        /\ state' = HideDeleteConfirm(state)
        /\ ev' = [op |-> "key"]
        /\ UNCHANGED lookups
        /\ confirmed' = {}
     \/ /\ key = "y"
        /\ LET jobId == IF state.showJobDetail /\ state.jobDetail # <<>>
                        THEN <<state.jobDetail[1].id>>
                        ELSE Selected(state.jobs, state.selectedJobIndex)
           IN IF jobId = <<>> \/ Selected(state.queues, state.selectedQueueIndex) = <<>>
              THEN /\ state' = HideDeleteConfirm(state)
                   /\ ev' = [op |-> "ignored", by |-> "confirmDelete"]
                   /\ UNCHANGED lookups
                   /\ confirmed' = {}
              ELSE /\ Awaits("confirmDelete", jobId[1])
                   /\ confirmed' = confirmed \cup {jobId[1]}
  /\ UNCHANGED brokerHolds
  /\ DetailFrame

\* confirmDelete() after its await: deleteJob answered (its result is not read),
\* hideDeleteConfirm(), closeJobDetail(); the refresh() that follows writes as
\* steps of ListsWritten.
ConfirmDeleteResumes(l) ==
  /\ l \in lookups /\ l.by = "confirmDelete"
  /\ brokerHolds' = [brokerHolds EXCEPT !.jobs = @ \ {l.id}]
  /\ state' = CloseJobDetail(HideDeleteConfirm(state))
  /\ ev' = [op |-> "lookup", fn |-> "deleteJob", by |-> l.by,
            missing |-> l.id \notin brokerHolds.jobs,
            result |-> DeleteJob(brokerHolds, l.id)]
  /\ lookups' = lookups \ {l}
  /\ confirmed' = Confirmations(state', confirmed)
  /\ DetailFrame

\* A catch block of confirmDelete that does nothing
DeleteCatchSilent(s) == s

\* catch { stateManager.hideDeleteConfirm(); } of confirmDelete
DeleteCatch(s) == HideDeleteConfirm(s)

\* The broker does not answer: the awaited call throws and the handler's catch
\* block runs (empty in the open handlers, hideDeleteConfirm() in confirmDelete).
LookupThrows(l) ==
  /\ l \in lookups
  /\ state' = IF l.by = "confirmDelete" THEN DeleteCatch(state) ELSE state
  /\ ev' = [op |-> "lookupThrew", by |-> l.by]
  /\ lookups' = lookups \ {l}
  /\ UNCHANGED brokerHolds
  /\ confirmed' = Confirmations(state', confirmed)
  /\ DetailFrame

LookupsOf == [by : {"openJobDetail", "openSchedulerDetail", "openSchedulerNextJob",
                    "confirmDelete"}, id : JobIds]

NextDetail ==
  \/ \E id \in JobIds : BrokerAdds("jobs", id)
  \/ \E id \in SchedulerKeys : BrokerAdds("schedulers", id)
  \/ \E id \in JobIds : BrokerRemoves("jobs", id)
  \/ \E id \in SchedulerKeys : BrokerRemoves("schedulers", id)
  \/ ListsWritten
  \/ \E key \in {"tab", "1", "7"} : KeyPlain(key)
  \/ KeyEnter
  \/ KeyDelete
  \/ \E key \in {"escape", "j"} : KeySchedulerDetail(key)
  \/ \E key \in {"escape", "d"} : KeyJobDetail(key)
  \/ \E key \in {"y", "n", "escape"} : KeyConfirmDelete(key)
  \/ \E l \in LookupsOf : OpenJobDetailResumes(l)
  \/ \E l \in LookupsOf : OpenSchedulerDetailResumes(l)
  \/ \E l \in LookupsOf : OpenSchedulerNextJobResumes(l)
  \/ \E l \in LookupsOf : ConfirmDeleteResumes(l)
  \/ \E l \in LookupsOf : LookupThrows(l)

SpecDetail == Init /\ [][NextDetail]_vars

(***************************************************************************)
(* The navigation keys and the page-jump modal: src/src/app.ts 158-170,    *)
(* 193-285, 366-384; src/src/state.ts 233-258.  pageJumpInput is the       *)
(* sequence of its characters.                                             *)
(***************************************************************************)
\* Bound: the digits typed into the page-jump modal, and their number
Digits == {"1", "7"}
MaxDigits == 1
\* The list-navigation keys
NavKeys == {"tab", "left", "right", "r", "g", "1", "7"}
\* The calls a handler awaits that are refreshes
Refreshes == {"refresh", "refreshJobs", "refreshSchedulers", "confirmPageJump"}

ShowPageJumpModal(s) == SetState(s, [showPageJump |-> TRUE, pageJumpInput |-> <<>>])
HidePageJumpModal(s) == SetState(s, [showPageJump |-> FALSE, pageJumpInput |-> <<>>])
AppendPageJumpInput(s, char) ==
  IF char \in Digits THEN SetState(s, [pageJumpInput |-> Append(s.pageJumpInput, char)]) ELSE s
BackspacePageJumpInput(s) ==
  SetState(s, [pageJumpInput |-> SubSeq(s.pageJumpInput, 1, Len(s.pageJumpInput) - 1)])

\* parseInt(pageInput, 10) of a string of digits
RECURSIVE ParseInt(_)
ParseInt(chars) ==
  IF chars = <<>> THEN 0
  ELSE 10 * ParseInt(SubSeq(chars, 1, Len(chars) - 1))
       + (CASE chars[Len(chars)] = "1" -> 1 [] chars[Len(chars)] = "7" -> 7)

\* A handler that left the Store as s calls refreshJobs() / refreshSchedulers():
\* with no queue selected the page is cleared at once, otherwise the fetch is
\* awaited.  refresh() is poll(): it returns at once while a poll is running.
StartsRefresh(s, by) ==
  IF by = "refresh"
  THEN IF \E l \in lookups : l.by = "refresh"
       THEN state' = s /\ UNCHANGED lookups
       ELSE /\ Cardinality(lookups) < MaxLookups
            /\ state' = SetState(s, [isLoading |-> TRUE])
            /\ lookups' = lookups \cup {[by |-> by, id |-> 0]}
  ELSE IF Selected(s.queues, s.selectedQueueIndex) = <<>>
       THEN /\ state' = SetState(s, IF by = "refreshSchedulers"
                                    THEN ClearedSchedulers ELSE ClearedPages)
            /\ UNCHANGED lookups
       ELSE /\ Cardinality(lookups) < MaxLookups
            /\ state' = s
            /\ lookups' = lookups \cup {[by |-> by, id |-> 0]}

\* The navigation switch of handleKeyPress, reached when no overlay returned
NavKey(key) ==
  /\ NoOverlay(state)
  /\ CASE key = "tab" -> state' = ToggleFocus(state) /\ UNCHANGED lookups
       [] key = "left" ->
            IF state.focusedPane # "jobs" THEN UNCHANGED <<state, lookups>>
            ELSE IF state.jobsStatus = "schedulers"
                 THEN StartsRefresh(PrevSchedulerPage(state), "refreshSchedulers")
                 ELSE StartsRefresh(PrevPage(state), "refreshJobs")
       [] key = "right" ->
            IF state.focusedPane # "jobs" THEN UNCHANGED <<state, lookups>>
            ELSE IF state.jobsStatus = "schedulers"
                 THEN StartsRefresh(NextSchedulerPage(state), "refreshSchedulers")
                 ELSE StartsRefresh(NextPage(state), "refreshJobs")
       [] key = "r" -> StartsRefresh(state, "refresh")
       [] key = "g" ->
            /\ state' = IF /\ state.focusedPane = "jobs"
                           /\ IF state.jobsStatus = "schedulers"
                              THEN state.schedulersTotalPages > 1
                              ELSE state.jobsTotalPages > 1
                        THEN ShowPageJumpModal(state) ELSE state
            /\ UNCHANGED lookups
       [] key \in DOMAIN STATUS_OPTIONS ->
            StartsRefresh(IF STATUS_OPTIONS[key] = "schedulers"
                          THEN SetState(SetJobsStatus(state, STATUS_OPTIONS[key]),
                                        [selectedSchedulerIndex |-> 0, schedulersPage |-> 1])
                          ELSE SetJobsStatus(state, STATUS_OPTIONS[key]),
                          "refreshJobs")
  /\ ev' = [op |-> "pressed", key |-> key]
  /\ UNCHANGED brokerHolds
  /\ DetailOnly

\* The keys of the page-jump modal: escape hides it, a digit is appended,
\* backspace removes one, enter runs confirmPageJump() up to its await.
KeyPageJump(key) ==
  /\ ~state.showConfirmDelete /\ state.showPageJump
  /\ CASE key = "escape" -> state' = HidePageJumpModal(state) /\ UNCHANGED lookups
       [] key = "backspace" -> state' = BackspacePageJumpInput(state) /\ UNCHANGED lookups
       [] key \in Digits ->
            /\ Len(state.pageJumpInput) < MaxDigits
            /\ state' = AppendPageJumpInput(state, key)
            /\ UNCHANGED lookups
       [] key = "enter" ->
            IF state.pageJumpInput # <<>> /\ ParseInt(state.pageJumpInput) >= 1
            THEN IF Selected(state.queues, state.selectedQueueIndex) = <<>>
                 THEN /\ state' = HidePageJumpModal(
                           IF state.jobsStatus = "schedulers"
                           THEN SetState(GoToSchedulerPage(state, ParseInt(state.pageJumpInput)),
                                         ClearedSchedulers)
                           ELSE SetState(GoToPage(state, ParseInt(state.pageJumpInput)),
                                         ClearedPages))
                      /\ UNCHANGED lookups
                 ELSE /\ Cardinality(lookups) < MaxLookups
                      /\ state' = IF state.jobsStatus = "schedulers"
                                  THEN GoToSchedulerPage(state, ParseInt(state.pageJumpInput))
                                  ELSE GoToPage(state, ParseInt(state.pageJumpInput))
                      /\ lookups' = lookups \cup {[by |-> "confirmPageJump", id |-> 0]}
            ELSE state' = HidePageJumpModal(state) /\ UNCHANGED lookups
  /\ ev' = [op |-> "pressed", key |-> key]
  /\ UNCHANGED brokerHolds
  /\ DetailOnly

\* A key the visible dialog, modal or overlay does not bind: its block returns.
KeyUnhandled(key) ==
  /\ ~NoOverlay(state)
  /\ ~(~state.showConfirmDelete /\ state.showPageJump /\ key \in Digits)
  /\ ev' = [op |-> "pressed", key |-> key]
  /\ UNCHANGED <<state, brokerHolds, lookups>>
  /\ DetailOnly

\* An awaited refresh is answered, the list holding `total` items: the page
\* (or, for refresh(), the summaries) is written, and confirmPageJump() goes on
\* to hide its modal.
RefreshAnswered(l, total) ==
  /\ l \in lookups /\ l.by \in Refreshes
  /\ LET page == IF l.by = "refreshSchedulers"
                    \/ (l.by = "confirmPageJump" /\ state.jobsStatus = "schedulers")
                 THEN RefreshSchedulersWrite(state,
                        GetJobSchedulers(state.schedulersPage, total))
                 ELSE RefreshJobsWrite(state,
                        GetJobs(state.jobsStatus, state.jobsPage, total))
     IN state' = CASE l.by = "refresh" ->
                        SetState(SummaryWrite(state, QueueStatsOf(<<"a">>),
                                              state.globalMetrics), [isLoading |-> FALSE])
                   [] l.by = "confirmPageJump" -> HidePageJumpModal(page)
                   [] OTHER -> page
  /\ lookups' = lookups \ {l}
  /\ ev' = [op |-> "refreshed", by |-> l.by]
  /\ UNCHANGED brokerHolds
  /\ DetailOnly

NextKeys ==
  \/ BrokerAdds("jobs", 1)
  \/ BrokerAdds("schedulers", 1)
  \/ \E key \in NavKeys : NavKey(key)
  \/ \E key \in NavKeys : KeyUnhandled(key)
  \/ \E key \in {"escape", "backspace", "enter"} \cup Digits : KeyPageJump(key)
  \/ KeyEnter
  \/ KeyDelete
  \/ \E key \in {"escape", "d"} : KeyJobDetail(key)
  \/ KeySchedulerDetail("escape")
  \/ \E key \in {"n", "escape"} : KeyConfirmDelete(key)
  \/ \E l \in lookups : OpenJobDetailResumes(l)
  \/ \E l \in lookups : OpenSchedulerDetailResumes(l)
  \/ \E l \in lookups, total \in {0, MaxTotal} : RefreshAnswered(l, total)

SpecKeys == Init /\ [][NextKeys]_vars

\* deleteJob returns or throws: an awaited delete does not stay pending forever.
DeleteAnswers ==
  \E l \in LookupsOf : l.by = "confirmDelete" /\ (ConfirmDeleteResumes(l) \/ LookupThrows(l))

\* The job views alone: the job overlay and the delete dialog, the broker's
\* jobs coming and going, and every awaited call answered or failing.
NextDelete ==
  \/ \E id \in JobIds : BrokerAdds("jobs", id)
  \/ \E id \in JobIds : BrokerRemoves("jobs", id)
  \/ ListsWritten
  \/ KeyEnter
  \/ KeyDelete
  \/ \E key \in {"escape", "d"} : KeyJobDetail(key)
  \/ \E key \in {"y", "n", "escape"} : KeyConfirmDelete(key)
  \/ \E l \in LookupsOf : OpenJobDetailResumes(l)
  \/ \E l \in LookupsOf : l.by = "openJobDetail" /\ LookupThrows(l)
  \/ DeleteAnswers

SpecDelete == Init /\ [][NextDelete]_vars /\ WF_vars(DeleteAnswers)

(***************************************************************************)
(* getJobSchedulerDetail, recent history: src/unnamed/part_000 300-349     *)
(***************************************************************************)
\* Bound: the last index of getCompleted(0, 50) / getFailed(0, 50), scaled down
HistoryScanEnd == 1
\* Bound: the length of slice(0, 10), scaled down
HistoryLength == 2
\* Bound: the jobs that have finished
MaxFinished == 4
\* Bound: the scheduler keys a finished job may refer back to
RepeatJobKeys == {1, 2}

\* A filter that keeps every job
BelongsToAny(jobKey, schedulerKey) == TRUE

\* job.repeatJobKey === schedulerKey
BelongsTo(jobKey, schedulerKey) == jobKey = schedulerKey

\* recentHistoryJobs of getJobSchedulerDetail(queue, schedulerKey) over the
\* lists f: [...completedJobs, ...failedJobs].filter(..), sort, slice(0, 10)
RecentHistory(f, schedulerKey) ==
  LET completedJobs == Range(f.completed, 0, HistoryScanEnd)
      failedJobs == Range(f.failed, 0, HistoryScanEnd)
      allHistoryJobs == SelectSeq(completedJobs \o failedJobs,
                                  LAMBDA job : BelongsTo(f.repeatJobKey[job], schedulerKey))
  IN Slice(SortByTimestamp(allHistoryJobs), 0, HistoryLength)

\* What the steps of the finished lists leave alone
HistoryOnly ==
  UNCHANGED <<state, isRunning, intervalId, isPolling, polls, fetches, tracker,
              strayMetrics, listeners, held, metricsTracker, now, updates, queueJobs,
              armed, config, queueNamesCache, redisKeys, discoveries, brokerHolds, lookups,
              confirmed>>

\* A job created at ts by scheduler key completes or fails: the broker puts it
\* at the head of that list.
JobFinishes(list, ts, key) ==
  /\ Len(finished.completed) + Len(finished.failed) < MaxFinished
  /\ ts \notin DOMAIN finished.repeatJobKey
  /\ finished' = [finished EXCEPT
       ![list] = <<ts>> \o @,
       !.repeatJobKey = [j \in DOMAIN @ \cup {ts} |-> IF j = ts THEN key ELSE @[j]]]
  /\ ev' = [op |-> "finished"]
  /\ HistoryOnly

\* getJobSchedulerDetail(queue, key) for a scheduler the broker holds, the
\* lists staying as they are while it reads them
RecentHistoryCall(key) ==
  /\ ev' = [op |-> "recentHistory", key |-> key, recentJobs |-> RecentHistory(finished, key)]
  /\ UNCHANGED finished
  /\ HistoryOnly

NextHistory ==
  \/ \E list \in {"completed", "failed"}, ts \in Timestamps, key \in RepeatJobKeys :
       JobFinishes(list, ts, key)
  \/ \E key \in RepeatJobKeys : RecentHistoryCall(key)

SpecHistory == Init /\ [][NextHistory]_vars

(***************************************************************************)
(* getStatusFromKey and the status keys: src/src/ui/scheduler-detail.ts    *)
(* 320-328, 378-381; src/src/app.ts 263-283                                *)
(***************************************************************************)
\* STATUS_OPTIONS, all seven entries, in the order of the array
StatusOptions ==
  << [key |-> "1", status |-> "latest"], [key |-> "2", status |-> "wait"],
     [key |-> "3", status |-> "active"], [key |-> "4", status |-> "completed"],
     [key |-> "5", status |-> "failed"], [key |-> "6", status |-> "delayed"],
     [key |-> "7", status |-> "schedulers"] >>

\* Bound: the strings getStatusFromKey is called with
KeyStrings == {"0", "1", "2", "3", "4", "5", "6", "7", "8", "99", "", " ", "a",
               "12", "1 ", "latest"}

\* A find whose predicate holds for every option
KeyMatchesAny(o, key) == TRUE

\* (o) => o.key === key
KeyMatches(o, key) == o.key = key

\* getStatusFromKey(key): STATUS_OPTIONS.find(..)?.status ?? null
GetStatusFromKey(key) ==
  LET found == SelectSeq(StatusOptions, LAMBDA o : KeyMatches(o, key))
  IN IF found = <<>> THEN Null ELSE found[1].status

\* getStatusFromKey(key), called by itself
GetStatusFromKeyCall(key) ==
  /\ ev' = [op |-> "getStatusFromKey", key |-> key, result |-> GetStatusFromKey(key)]
  /\ UNCHANGED state
  /\ PagingOnly

\* case "1" .. "7" with no overlay open: getStatusFromKey, setJobsStatus, the
\* reset of the scheduler view, refreshJobs() (which writes its page as a step
\* of PageRefreshed)
StatusKeyPressed(key) ==
  /\ LET newStatus == GetStatusFromKey(key)
     IN /\ state' = IF newStatus = Null THEN state
                    ELSE IF newStatus = "schedulers"
                         THEN SetState(SetJobsStatus(state, newStatus),
                                       [selectedSchedulerIndex |-> 0, schedulersPage |-> 1])
                         ELSE SetJobsStatus(state, newStatus)
        /\ ev' = [op |-> "statusKey", key |-> key, result |-> newStatus]
  /\ PagingOnly

NextStatusFilter ==
  \/ \E key \in KeyStrings : GetStatusFromKeyCall(key)
  \/ \E key \in {"1", "2", "3", "4", "5", "6", "7"} : StatusKeyPressed(key)
  \/ \E total \in 0 .. MaxTotal : PageRefreshed(total)

SpecStatusFilter == Init /\ [][NextStatusFilter]_vars

(***************************************************************************)
(* Properties of the poll scheduler                                        *)
(***************************************************************************)
PollsInFlight == {i \in 1..MaxPolls : polls[i].pc # "idle"}

\* C1: at most one poll body executes at a time, and a poll() call (timer tick or
\* manual refresh) made while a poll is in flight issues no remote fetch and
\* writes nothing to the Store.
SinglePoll ==
  /\ [](Cardinality(PollsInFlight) <= 1)
  /\ [][(PollsInFlight # {} /\ ev'.op \in {"pollSkipped", "pollEntered"})
         => (state' = state /\ polls' = polls /\ fetches' = fetches)]_vars

\* A poll() call was skipped while a poll was awaiting its remote calls.
SinglePollSeen == ev.op = "pollSkipped" /\ PollsInFlight # {}

\* C2: the guard is always released: a poll that entered its body eventually
\* clears the guard, a failed poll has cleared it when it ends, and whenever the
\* guard is clear the next poll() enters its body.
GuardReleased ==
  /\ [](ev.op = "pollFailed" => ~isPolling)
  /\ (isPolling ~> ~isPolling)
  /\ [][(~isPolling /\ ev'.op \in {"pollSkipped", "pollEntered"}) => ev'.op = "pollEntered"]_vars

\* A poll entered its body while the Store still shows the failure of the poll before it.
GuardReleasedSeen == ev.op = "pollEntered" /\ state.error # Null /\ isPolling

\* C3: a poll that ends on a thrown remote call leaves connected = false, error =
\* the failure message and isLoading = false, and has reset the Rate Tracker if
\* and only if the Store was connected when the poll started.
FailedPoll ==
  ev.op = "pollFailed" =>
    /\ state.connected = FALSE
    /\ state.error = (IF ev.thrown.isError THEN ev.thrown.message ELSE "Unknown error")
    /\ state.isLoading = FALSE
    /\ tracker = (IF ev.startConnected THEN [hasBaseline |-> FALSE] ELSE ev.trackerBefore)

\* A poll failed with a baseline in the tracker: once from a connected Store
\* (baseline dropped), once from a disconnected one (baseline kept).
FailedPollSeen ==
  /\ ev.op = "pollFailed" /\ ev.trackerBefore.hasBaseline
  /\ ev.startConnected /\ ~tracker.hasBaseline

(***************************************************************************)
(* Properties of the refreshes                                             *)
(***************************************************************************)
QueueSelected(s) == s.selectedQueueIndex + 1 \in DOMAIN s.queues

IndexInRange(index, list) == IF Len(list) = 0 THEN index = 0 ELSE index \in 0..(Len(list) - 1)

\* C4: no two refreshes race: a page written to the Store never comes from a
\* fetch that was overtaken (a refresh issued after it has already written page
\* state) and that was issued for another page than the one the Store now selects.
NoRefreshRace ==
  ~(ev.op = "pageWritten" /\ ev.overtaken /\ ev.kind = "jobs" /\ ev.page # state.jobsPage)

\* C5: the job page and the scheduler page are never populated together.
OnePagePopulated ==
  \/ (state.jobs = <<>> /\ state.jobsTotal = 0 /\ state.jobsTotalPages = 0)
  \/ (state.schedulers = <<>> /\ state.schedulersTotal = 0 /\ state.schedulersTotalPages = 0)

\* C6: every selected index lies within its list, or is 0 when the list is empty.
SelectedInRange ==
  /\ IndexInRange(state.selectedQueueIndex, state.queues)
  /\ IndexInRange(state.selectedJobIndex, state.jobs)
  /\ IndexInRange(state.selectedSchedulerIndex, state.schedulers)

\* C7: in the scheduler view with a queue selected, a poll that has written the
\* summaries goes on to fetch the scheduler page at the Store's scheduler page
\* number, and refreshJobs() fetches the scheduler page too; neither ends
\* without a remote fetch of schedulers.
SchedulerViewFetched ==
  /\ (state.jobsStatus = "schedulers" /\ QueueSelected(state)
        /\ ev.op \in {"summaryWritten", "pollDone"})
       => (ev.op = "summaryWritten" /\ ev.request.kind = "schedulers"
            /\ ev.request.page = state.schedulersPage)
  /\ (state.jobsStatus = "schedulers" /\ QueueSelected(state)
        /\ ev.op \in {"refreshIssued", "pageWritten"} /\ ev.by = "refreshJobs"
        /\ (ev.op = "pageWritten" => ~ev.remote))
       => (ev.op = "refreshIssued" /\ ev.request.kind = "schedulers"
            /\ ev.request.page = state.schedulersPage)

NoWriteBeforeSummaries == [][ev'.op = "pollEntered" => state' = state]_vars

\* C9: the two parallel fetches complete in either order and the poll writes no
\* fetched data (summaries, metrics, selected-queue index, pages) before both
\* have; the page fetch is issued by the step that writes the summaries, after
\* that write, for the queue at the clamped index of the list just written.
SummariesAwaited ==
  /\ [](ev.op = "summaryWritten" =>
          \E i \in 1..MaxPolls :
            /\ polls[i].pc = "page"
            /\ polls[i].stats # <<>> /\ polls[i].metrics # <<>>
            /\ state.queues = polls[i].stats[1]
            /\ state.globalMetrics = polls[i].metrics
            /\ state.queues # <<>>
            /\ state.selectedQueueIndex = Min(ev.selectedBefore, Len(state.queues) - 1)
            /\ ev.request.queue = state.queues[state.selectedQueueIndex + 1].name)
  /\ [][ev'.op \in {"pollEntered", "pollSkipped", "arrived", "pollFailed"} =>
          /\ state'.queues = state.queues
          /\ state'.globalMetrics = state.globalMetrics
          /\ state'.selectedQueueIndex = state.selectedQueueIndex
          /\ state'.jobs = state.jobs /\ state'.schedulers = state.schedulers
          /\ Len(fetches') <= Len(fetches)]_vars
  /\ [][(Len(fetches') > Len(fetches) /\ fetches'[Len(fetches')].by = "poll")
          => ev'.op = "summaryWritten"]_vars

\* A poll wrote a list shorter than the selected index and issued its page fetch
\* for the queue at the clamped index.
SummariesClamped == ev.op = "summaryWritten" /\ ev.selectedBefore > state.selectedQueueIndex

\* C10: the page fetch of a poll asks for the status filter and the page number
\* the Store holds after the summary write.
PageFetchReadsStore ==
  ev.op = "summaryWritten" =>
    IF ev.request.kind = "schedulers"
    THEN ev.request.page = state.schedulersPage
    ELSE ev.request.status = state.jobsStatus /\ ev.request.page = state.jobsPage

\* The operator changed the filter while the summaries were fetched, and the
\* poll's page fetch asks for the new filter.
FilterChangedInFlight ==
  /\ ev.op = "summaryWritten"
  /\ ev.statusAtEntry # state.jobsStatus
  /\ ev.request.status = state.jobsStatus

\* C11: after the summary write of a poll, selectedQueueIndex is the smaller of the
\* index the Store held before the write and queueCount - 1, and 0 without queues.
IndexClamped ==
  ev.op \in {"summaryWritten", "pollDone"} =>
    state.selectedQueueIndex =
      (IF Len(state.queues) > 0
       THEN (IF ev.selectedBefore < Len(state.queues) - 1
             THEN ev.selectedBefore ELSE Len(state.queues) - 1)
       ELSE 0)

\* The last queue was selected and the summary write brought a list of one queue:
\* the index moved to that queue.
IndexClampedToLast ==
  /\ ev.op \in {"summaryWritten", "pollDone"}
  /\ ev.selectedBefore = Len(QueueNameOrder) - 1
  /\ Len(state.queues) = 1
  /\ state.selectedQueueIndex = 0

\* C12: the first poll that succeeds after an outage (the Store had been
\* connected, then polls failed) publishes first-observation rates, all zero.
ReconnectFromZero ==
  (/\ ev.op \in {"pollDone", "pageWritten"}
   /\ (ev.op = "pageWritten" => ev.by = "poll")
   /\ ev.afterOutage)
  => state.globalMetrics[1].rates = "zero"

(***************************************************************************)
(* Properties of the Store's notification and copies                       *)
(***************************************************************************)
\* C13: when a setState call has returned, every subscribed listener has been
\* called exactly once by it, in the order of registration, each with the state
\* as merged by that call.
NotifiedOnceInOrder ==
  ev.op = "setState" =>
    /\ Len(ev.calls) = Len(listeners)
    /\ \A i \in DOMAIN ev.calls :
         /\ ev.calls[i].listener = listeners[i]
         /\ ev.calls[i].snapshot = state
    /\ \A i, j \in DOMAIN listeners : listeners[i] = listeners[j] => i = j

\* Two listeners, registered against the alphabet, notified of a merge of isLoading.
TwoListenersNotified ==
  /\ ev.op = "setState"
  /\ DOMAIN ev.partial = {"isLoading"}
  /\ Len(ev.calls) = 2
  /\ ev.calls[1].listener = "render"
  /\ ev.calls[2].listener = "other"
  /\ ev.calls[2].snapshot.isLoading

\* C14: a setState call gives each field named in its argument the argument's
\* value and leaves every other field of the state as it was; fields merged by
\* earlier calls are kept.
MergesNamedFieldsOnly ==
  [][ev'.op = "setState" =>
       /\ DOMAIN state' = DOMAIN state
       /\ \A f \in DOMAIN state :
            state'[f] = IF f \in DOMAIN ev'.partial THEN ev'.partial[f] ELSE state[f]]_vars

\* setState({isLoading: true}) followed by setState({jobsPage: 2, ...}): both held.
BothMergesHeld ==
  /\ ev.op = "setState"
  /\ DOMAIN ev.partial = {"jobsPage", "selectedJobIndex"}
  /\ state.jobsPage = 2
  /\ state.isLoading
  /\ state.queues = <<>>

\* C15: when a listener throws during the notification of a setState call, the
\* call still notifies every subscribed listener, the state stays merged, and
\* nothing is thrown to the caller of setState.
ListenerFailureContained ==
  (ev.op = "setState" /\ ev.throwers # {}) =>
    /\ ~ev.propagated
    /\ \A i \in DOMAIN listeners : \E j \in DOMAIN ev.calls : ev.calls[j].listener = listeners[i]
    /\ \A f \in DOMAIN ev.partial : state[f] = ev.partial[f]

\* The first listener threw and the second was notified, of a merge that set a flag.
SecondNotifiedAfterThrow ==
  /\ ev.op = "setState"
  /\ Len(ev.calls) = 2
  /\ ev.calls[1].threw
  /\ ~ev.calls[2].threw
  /\ DOMAIN ev.partial = {"isLoading"}
  /\ state.isLoading

\* C16: the Store's state changes only through setState: nothing a caller does
\* to a value it received from getState() or as a listener changes it.
ChangedOnlyBySetState ==
  [][state' # state => ev'.op = "setState"]_vars

(***************************************************************************)
(* Properties of the rate tracker                                          *)
(***************************************************************************)
\* C17: the first update after construction, and the first update after a
\* reset, emits zero for the four rates whatever the counts, and records the
\* counts (their total and their processed part) and the time as the baseline.
FirstUpdateZero ==
  (ev.op = "update" /\ ev.follows \in {"none", "reset"}) =>
    /\ ev.rates.enqueuedPerMin = <<0, 1>>
    /\ ev.rates.enqueuedPerSec = <<0, 1>>
    /\ ev.rates.dequeuedPerMin = <<0, 1>>
    /\ ev.rates.dequeuedPerSec = <<0, 1>>
    /\ metricsTracker.lastPollTime = <<now>>
    /\ metricsTracker.lastTotalJobs =
         ev.counts.wait + ev.counts.active + ev.counts.delayed
           + ev.counts.completed + ev.counts.failed
    /\ metricsTracker.lastProcessedJobs = ev.counts.completed + ev.counts.failed

\* An update that follows a reset made after earlier updates, with 10 completed jobs.
ZeroAfterReset ==
  /\ ev.op = "update"
  /\ ev.follows = "reset"
  /\ updates = MaxUpdates
  /\ now >= MsPerMin
  /\ ev.counts.completed = 10
  /\ ev.rates.dequeuedPerMin = <<0, 1>>
  /\ metricsTracker.lastProcessedJobs = 10

\* C18: no rate an update emits, enqueue or dequeue, per minute or per second,
\* is negative, also when the counts passed are below the recorded baseline.
RatesNeverNegative ==
  ev.op = "update" =>
    /\ ev.rates.enqueuedPerMin[1] >= 0 /\ ev.rates.enqueuedPerMin[2] > 0
    /\ ev.rates.enqueuedPerSec[1] >= 0 /\ ev.rates.enqueuedPerSec[2] > 0
    /\ ev.rates.dequeuedPerMin[1] >= 0 /\ ev.rates.dequeuedPerMin[2] > 0
    /\ ev.rates.dequeuedPerSec[1] >= 0 /\ ev.rates.dequeuedPerSec[2] > 0

\* Ten jobs counted over one minute, then none left a minute later: the smoothed
\* rate decays from 3 to 2.1 instead of going below zero.
RateAfterDeletion ==
  /\ ev.op = "update"
  /\ updates = 3
  /\ ev.elapsed = MsPerMin
  /\ ev.counts.wait + ev.counts.active + ev.counts.delayed
       + ev.counts.completed + ev.counts.failed = 0
  /\ metricsTracker.smoothedEnqueuedPerMin = <<21, 10>>
  /\ ev.rates.enqueuedPerMin = <<21, 10>>
  /\ ev.rates.dequeuedPerMin = <<21, 10>>

\* C19: an update made at least 0.001 minute after the recorded observation
\* sets each smoothed per-minute rate to 0.3 * (max(0, current - previous) /
\* elapsed minutes) + 0.7 * (previous smoothed rate); and on a fresh tracker,
\* completed going from 0 to 10 over 60 seconds gives 3.0 dequeued per minute.
SmoothedByThreeTenths ==
  [][ev'.op = "update" =>
       /\ (/\ metricsTracker.lastPollTime # <<>>
           /\ (now' - metricsTracker.lastPollTime[1]) * 1000 >= 60000)
          => LET minutes == Rat(now' - metricsTracker.lastPollTime[1], 60000)
                 total == ev'.counts.wait + ev'.counts.active + ev'.counts.delayed
                            + ev'.counts.completed + ev'.counts.failed
                 processed == ev'.counts.completed + ev'.counts.failed
                 enqueued == IF total > metricsTracker.lastTotalJobs
                             THEN total - metricsTracker.lastTotalJobs ELSE 0
                 dequeued == IF processed > metricsTracker.lastProcessedJobs
                             THEN processed - metricsTracker.lastProcessedJobs ELSE 0
             IN /\ metricsTracker'.smoothedEnqueuedPerMin =
                     RatAdd(RatMul(<<3, 10>>, RatDiv(<<enqueued, 1>>, minutes)),
                            RatMul(<<7, 10>>, metricsTracker.smoothedEnqueuedPerMin))
                /\ metricsTracker'.smoothedDequeuedPerMin =
                     RatAdd(RatMul(<<3, 10>>, RatDiv(<<dequeued, 1>>, minutes)),
                            RatMul(<<7, 10>>, metricsTracker.smoothedDequeuedPerMin))
       /\ (/\ ev.op = "update" /\ ev.follows \in {"none", "reset"}
           /\ ev.counts.completed = 0 /\ ev.counts.failed = 0
           /\ ev'.counts.completed = 10 /\ ev'.counts.failed = 0
           /\ ev'.elapsed = 60000)
          => /\ metricsTracker'.smoothedDequeuedPerMin = <<3, 1>>
             /\ ev'.rates.dequeuedPerMin = <<3, 1>>]_vars

\* The example: first observation with nothing completed, 10 completed 60 seconds later.
TenInAMinute ==
  /\ ev.op = "update"
  /\ updates = 2
  /\ ev.elapsed = 60000
  /\ ev.counts.completed = 10
  /\ metricsTracker.lastPollTime = <<60000>>
  /\ metricsTracker.smoothedDequeuedPerMin = <<3, 1>>
  /\ ev.rates.dequeuedPerMin = <<3, 1>>
  /\ ev.rates.dequeuedPerSec = <<1, 20>>

\* C20: an update that arrives less than 0.001 minute after the recorded
\* observation returns the smoothed rates the tracker holds (per second: a
\* sixtieth of them) and leaves the tracker's timestamp, baseline totals and
\* smoothed rates as they were.
ShortIntervalKeepsState ==
  [][(/\ ev'.op = "update"
      /\ metricsTracker.lastPollTime # <<>>
      /\ (now' - metricsTracker.lastPollTime[1]) * 1000 < 60000)
     => /\ metricsTracker' = metricsTracker
        /\ ev'.rates.enqueuedPerMin = metricsTracker.smoothedEnqueuedPerMin
        /\ ev'.rates.dequeuedPerMin = metricsTracker.smoothedDequeuedPerMin
        /\ ev'.rates.enqueuedPerSec = RatDiv(metricsTracker.smoothedEnqueuedPerMin, <<60, 1>>)
        /\ ev'.rates.dequeuedPerSec = RatDiv(metricsTracker.smoothedDequeuedPerMin, <<60, 1>>)]_vars

\* An update 59 ms after an observation that measured a rate, with other counts:
\* the rate is returned and the observation stays the recorded one.
ShortIntervalReturned ==
  /\ ev.op = "update"
  /\ ev.elapsed = 59
  /\ metricsTracker.lastPollTime = <<now - 59>>
  /\ metricsTracker.smoothedDequeuedPerMin[1] > 0
  /\ ev.rates.dequeuedPerMin = metricsTracker.smoothedDequeuedPerMin
  /\ ev.counts.completed + ev.counts.failed # metricsTracker.lastProcessedJobs

\* C21: an update made at least 0.001 minute after the recorded observation
\* records its time and its counts as the new baseline, also when a count went
\* down and its delta was clamped; the update after a drop measures from the
\* dropped level.
BaselineAlwaysRecorded ==
  (/\ ev.op = "update"
   /\ ev.before.lastPollTime # <<>>
   /\ (now - ev.before.lastPollTime[1]) * 1000 >= 60000)
  => /\ metricsTracker.lastPollTime = <<now>>
     /\ metricsTracker.lastTotalJobs =
          ev.counts.wait + ev.counts.active + ev.counts.delayed
            + ev.counts.completed + ev.counts.failed
     /\ metricsTracker.lastProcessedJobs = ev.counts.completed + ev.counts.failed
     /\ ev.droppedTo # <<>> => ev.before.lastTotalJobs = ev.droppedTo[1]

\* Ten jobs, then none, then ten again, a minute apart: the rise is measured from
\* zero (10 per minute, smoothed to 3) and not from the earlier ten.
RiseMeasuredFromDrop ==
  /\ ev.op = "update"
  /\ ev.droppedTo = <<0>>
  /\ ev.elapsed = MsPerMin
  /\ ev.before.lastTotalJobs = 0
  /\ metricsTracker.lastTotalJobs = 10
  /\ ev.rates.enqueuedPerMin = <<3, 1>>

(***************************************************************************)
(* Properties of getJobs                                                   *)
(***************************************************************************)
\* The jobs among the first `n` of each list named in cats
FetchedOf(cats, n) ==
  UNION {{queueJobs[c][k] : k \in 1..Min(n, Len(queueJobs[c]))} : c \in cats}
\* The place of job x among the jobs S, newest first
RankIn(S, x) == Cardinality({y \in S : y >= x})
\* jobs is the window start+1..end of S read newest first
IsWindowOf(jobs, S, start, end) ==
  /\ \A k \in DOMAIN jobs : jobs[k] \in S /\ RankIn(S, jobs[k]) = start + k
  /\ Len(jobs) = Cardinality({x \in S : RankIn(S, x) > start /\ RankIn(S, x) <= end})

\* The number of jobs in the lists cats of the queue
RECURSIVE FoldCount(_)
FoldCount(cats) ==
  IF cats = {} THEN 0
  ELSE LET c == CHOOSE x \in cats : TRUE IN Len(queueJobs[c]) + FoldCount(cats \ {c})

\* C22: a "latest" request returns, newest first, the jobs at places
\* (page-1)*pageSize+1 .. page*pageSize among the first page*pageSize jobs of
\* every list, and as total the sum of the six counts.
LatestIsMergedWindow ==
  (ev.op = "getJobs" /\ ev.status = "latest") =>
    LET page == ev.result.page
    IN /\ IsWindowOf(ev.result.jobs, FetchedOf(DOMAIN queueJobs, page * PageSize),
                     (page - 1) * PageSize, page * PageSize)
       /\ ev.result.total =
            Len(queueJobs["active"]) + Len(queueJobs["waiting"]) + Len(queueJobs["completed"])
              + Len(queueJobs["failed"]) + Len(queueJobs["delayed"])
              + Len(queueJobs["prioritized"])

\* Page 1 by 2 over [100], [90, 80], [], [70], [] (and no prioritized job): 100, 90 of 4.
LatestExample ==
  /\ ev.op = "getJobs" /\ ev.status = "latest" /\ ev.result.page = 1
  /\ queueJobs["active"] = <<100>>
  /\ queueJobs["waiting"] = <<90, 80>>
  /\ queueJobs["completed"] = <<>>
  /\ queueJobs["failed"] = <<70>>
  /\ queueJobs["delayed"] = <<>>
  /\ queueJobs["prioritized"] = <<>>
  /\ ev.result.jobs = <<100, 90>>
  /\ ev.result.total = 4

\* The broker's count of the jobs a status filter shows
RemoteCount(status) ==
  CASE status = "latest" -> FoldCount(DOMAIN queueJobs)
    [] status = "wait" -> FoldCount({"waiting", "prioritized"})
    [] OTHER -> FoldCount({status})

\* C23: for the merged views and the single-status views, total is the broker's
\* count, totalPages the least number of pages that holds it, and a page beyond
\* the last one has no item.
BeyondLastPageEmpty ==
  (ev.op = "getJobs" /\ ev.status \in JobStatuses) =>
    /\ ev.result.total = RemoteCount(ev.status)
    /\ ev.result.totalPages * PageSize >= ev.result.total
    /\ (ev.result.totalPages - 1) * PageSize < ev.result.total
    /\ ev.result.totalPages >= 0
    /\ ev.result.page > ev.result.totalPages => ev.result.jobs = <<>>

\* Page 2 of a wait view of two jobs, one of them prioritized: nothing, of 2 in 1 page.
PageTwoOfOne ==
  /\ ev.op = "getJobs" /\ ev.status = "wait" /\ ev.result.page = 2
  /\ Len(queueJobs["waiting"]) = 1
  /\ Len(queueJobs["prioritized"]) = 1
  /\ ev.result.jobs = <<>>
  /\ ev.result.total = 2
  /\ ev.result.totalPages = 1

\* C24: a "wait" request returns, newest first, the jobs at places
\* (page-1)*pageSize+1 .. page*pageSize among the first page*pageSize waiting
\* and the first page*pageSize prioritized jobs, and as total the two counts.
WaitIsMergedWindow ==
  (ev.op = "getJobs" /\ ev.status = "wait") =>
    LET page == ev.result.page
    IN /\ IsWindowOf(ev.result.jobs, FetchedOf({"waiting", "prioritized"}, page * PageSize),
                     (page - 1) * PageSize, page * PageSize)
       /\ ev.result.total = Len(queueJobs["waiting"]) + Len(queueJobs["prioritized"])

(***************************************************************************)
(* Properties of start() and stop()                                        *)
(***************************************************************************)
\* A call of poll(): it entered, or the guard dropped it.
PollCalled(e) == e.op \in {"pollEntered", "pollSkipped"}

\* C25: after any start() and stop() calls at most one timer is armed, and one
\* is armed exactly when the scheduler runs; start() on a stopped scheduler
\* calls poll() once and arms the timer, start() on a running one does nothing,
\* and while the scheduler is stopped no poll() call begins.
StartStopIdempotent ==
  [][/\ armed' <= 1
     /\ (armed' = 1) <=> isRunning'
     /\ intervalId' <=> isRunning'
     /\ (~isRunning /\ isRunning') => (PollCalled(ev') /\ armed = 0 /\ armed' = 1)
     /\ ev'.op = "startIgnored" =>
          (isRunning /\ UNCHANGED <<state, isRunning, intervalId, armed, isPolling, polls, fetches>>)
     /\ ev'.op = "stop" => (~isRunning' /\ armed' = 0)
     /\ (~isRunning /\ ~isRunning') => ~PollCalled(ev')]_vars

\* start() called on a running and connected scheduler: still one timer.
StartedTwice ==
  /\ ev.op = "startIgnored"
  /\ isRunning
  /\ armed = 1
  /\ state.connected

\* The place of a queue name in the sorting order
PositionOf(n) == CHOOSE k \in DOMAIN QueueNameOrder : QueueNameOrder[k] = n

\* A list of queue names in ascending order with no name twice
StrictlySorted(names) ==
  \A i, j \in DOMAIN names : i < j => PositionOf(names[i]) < PositionOf(names[j])

\* C26: discovery returns the configured list, without a scan, whenever one is
\* configured; otherwise a call made less than 5 seconds after the time the
\* cache records for its scan returns the cached list and starts no scan; and
\* every list a scan returns is sorted and holds no name twice.
DiscoveryCached ==
  /\ ev.op = "scanStarted" =>
       /\ Len(config[1].queueNames) = 0
       /\ ~(queueNamesCache # <<>>
            /\ now - queueNamesCache[1].timestamp < QUEUE_NAMES_CACHE_TTL)
  /\ (ev.op = "discovered" /\ ~ev.scanned) =>
       IF Len(config[1].queueNames) > 0
       THEN ev.names = config[1].queueNames
       ELSE ev.names = queueNamesCache[1].names
  /\ (ev.op = "discovered" /\ ev.scanned) =>
       /\ StrictlySorted(ev.names)
       /\ {ev.names[k] : k \in DOMAIN ev.names} \subseteq redisKeys
\* C26 witness: with nothing configured, a call 4999 ms after the recorded scan
\* is answered with the two names of that scan.
CachedListReturned ==
  /\ ev.op = "discovered" /\ ~ev.scanned
  /\ Len(config[1].queueNames) = 0
  /\ now - queueNamesCache[1].timestamp = QUEUE_NAMES_CACHE_TTL - 1
  /\ ev.names = <<"a", "b">>

\* C27: no two queue summaries of the Store have the same queue name.
UniqueQueueNames ==
  \A i, j \in DOMAIN state.queues : i # j => state.queues[i].name # state.queues[j].name

\* C28 (as amended): after goToPage(n) or goToSchedulerPage(n) the page number of
\* that view is max(1, min(n, totalPages)): within [1, totalPages] when there
\* is at least one page (1 for n below 1, totalPages for n above it, n itself
\* otherwise) and 1 when totalPages is 0; the view's selected index is 0.
PageJumpClamped ==
  LET Expected(n, tp) == IF tp < 1 \/ n < 1 THEN 1 ELSE IF n > tp THEN tp ELSE n
  IN /\ ev.op = "goToPage" =>
          /\ state.jobsPage = Expected(ev.page, state.jobsTotalPages)
          /\ state.selectedJobIndex = 0
     /\ ev.op = "goToSchedulerPage" =>
          /\ state.schedulersPage = Expected(ev.page, state.schedulersTotalPages)
          /\ state.selectedSchedulerIndex = 0
\* C28 witness: page 0 is asked for with three pages present, and page 1 is
\* the page of the view.
JumpBelowFirst ==
  /\ ev.op = "goToPage" /\ ev.page = 0
  /\ state.jobsTotalPages = MaxPage
  /\ state.jobsPage = 1
  /\ Len(state.jobs) = PageSize
\* C28 (as stated): after a page jump the page number lies within [1, totalPages].
PageWithinTotalPages ==
  /\ ev.op = "goToPage" =>
       (1 <= state.jobsPage /\ state.jobsPage <= state.jobsTotalPages)
  /\ ev.op = "goToSchedulerPage" =>
       (1 <= state.schedulersPage /\ state.schedulersPage <= state.schedulersTotalPages)

\* C29 (as amended): a job-detail or scheduler-detail lookup for an id or key
\* the broker no longer holds returns null, and a delete lookup for such an id
\* returns false; each returns and none throws; and a handler that opens a
\* detail leaves the Store as it was when its lookup found nothing.
MissingYieldsNullOrFalse ==
  /\ [](ev.op = "lookup" /\ ev.missing =>
          ev.result = IF ev.fn = "deleteJob" THEN "false" ELSE Null)
  /\ [][(/\ ev'.op = "lookup" /\ ev'.missing
         /\ ev'.by \in {"openJobDetail", "openSchedulerDetail", "openSchedulerNextJob"})
        => state' = state]_vars
\* C29 witness: enter was pressed on a listed job the broker had dropped, and
\* the lookup returned null with the job still listed.
ListedJobGone ==
  /\ ev.op = "lookup" /\ ev.by = "openJobDetail" /\ ev.missing
  /\ ev.result = Null
  /\ state.jobs # <<>>
  /\ ~state.showJobDetail
\* C29 (as stated): every lookup for an id or key the broker no longer holds,
\* the delete lookup included, yields null.
MissingYieldsNull == ev.op = "lookup" /\ ev.missing => ev.result = Null

\* C30: in every state showJobDetail is true exactly when jobDetail is
\* non-null and showSchedulerDetail is true exactly when schedulerDetail is
\* non-null; closing an overlay (by escape, or by a confirmed delete) leaves
\* its detail null.
DetailHeldWhileVisible ==
  /\ state.showJobDetail <=> state.jobDetail # <<>>
  /\ state.showSchedulerDetail <=> state.schedulerDetail # <<>>
  /\ (ev.op = "closed" /\ ev.overlay = "job") => state.jobDetail = <<>>
  /\ (ev.op = "closed" /\ ev.overlay = "scheduler") => state.schedulerDetail = <<>>
  /\ (ev.op = "lookup" /\ ev.by = "confirmDelete") => state.jobDetail = <<>>
\* C30 witness: escape closed the job overlay that "j" had opened from a
\* scheduler's overlay, the scheduler still being listed.
JobOverlayClosed ==
  /\ ev.op = "closed" /\ ev.overlay = "job"
  /\ ~state.showJobDetail /\ ~state.showSchedulerDetail
  /\ state.jobsStatus = "schedulers"
  /\ state.schedulers # <<>>

\* The jobs of scheduler key among the scanned prefixes of the two lists
ScannedOf(key) ==
  {j \in {finished.completed[k] : k \in 1 .. Min(HistoryScanEnd + 1, Len(finished.completed))}
         \cup {finished.failed[k] : k \in 1 .. Min(HistoryScanEnd + 1, Len(finished.failed))} :
     finished.repeatJobKey[j] = key}

\* C31: the recent history of a scheduler holds only completed or failed jobs
\* that refer back to the requested key, newest first, at most the fixed length
\* of them: the newest matching jobs of the scanned prefixes.
RecentHistoryIsNewest ==
  ev.op = "recentHistory" =>
    /\ Len(ev.recentJobs) <= HistoryLength
    /\ IsWindowOf(ev.recentJobs, ScannedOf(ev.key), 0, HistoryLength)
\* C31 witness: three scanned jobs refer back to the key and one to another;
\* the two newest of the three are returned, the newer first.
HistoryTruncated ==
  /\ ev.op = "recentHistory" /\ ev.key = 1
  /\ Cardinality(ScannedOf(1)) = 3
  /\ Cardinality(ScannedOf(2)) = 1
  /\ Len(ev.recentJobs) = HistoryLength
  /\ ev.recentJobs[1] > ev.recentJobs[2]

\* C32: getStatusFromKey returns the filter bound to the key ("1" latest, "2"
\* wait, "3" active, "4" completed, "5" failed, "6" delayed, "7" schedulers) and
\* null for every other string.
StatusOfBoundKeyOnly ==
  ev.op \in {"getStatusFromKey", "statusKey"} =>
    ev.result = CASE ev.key = "1" -> "latest"
                  [] ev.key = "2" -> "wait"
                  [] ev.key = "3" -> "active"
                  [] ev.key = "4" -> "completed"
                  [] ev.key = "5" -> "failed"
                  [] ev.key = "6" -> "delayed"
                  [] ev.key = "7" -> "schedulers"
                  [] OTHER -> Null
\* C32 witness: with the failed jobs in view, the string "1 " is bound to no filter.
UnboundKeyIsNull ==
  /\ ev.op = "getStatusFromKey" /\ ev.key = "1 " /\ ev.result = Null
  /\ state.jobsStatus = "failed"
  /\ Len(state.jobs) = PageSize

\* C33: once "y" has confirmed a deletion the delete dialog is hidden: at once
\* when no queue or no job is selected, and otherwise when the delete call
\* returns (the job removed, or already gone) or throws.
DialogHiddenAfterConfirm ==
  /\ []((ev.op = "ignored" /\ ev.by = "confirmDelete") => ~state.showConfirmDelete)
  /\ []((ev.op \in {"lookup", "lookupThrew"} /\ ev.by = "confirmDelete")
          => ~state.showConfirmDelete)
  /\ ((\E l \in lookups : l.by = "confirmDelete") ~> ~state.showConfirmDelete)
\* C33 witness: the delete call found the job already gone and the dialog is hidden.
HiddenAfterJobGone ==
  /\ ev.op = "lookup" /\ ev.by = "confirmDelete" /\ ev.missing
  /\ ~state.showConfirmDelete

\* C34: a list-navigation key pressed while the delete dialog, the page-jump
\* modal or a detail overlay is visible changes neither the focused pane, the
\* status filter nor a page number, and starts no refresh; it changes nothing
\* at all unless it is a digit typed into the page-jump modal on top.  A key
\* goes to the delete dialog first, then to the page-jump modal, then to the
\* job overlay, then to the scheduler overlay.
NavKeysInertUnderOverlay ==
  /\ [][(/\ ev'.op = "pressed" /\ ev'.key \in NavKeys
         /\ \/ state.showConfirmDelete \/ state.showPageJump
            \/ state.showJobDetail \/ state.showSchedulerDetail)
        => /\ state'.focusedPane = state.focusedPane
           /\ state'.jobsStatus = state.jobsStatus
           /\ state'.jobsPage = state.jobsPage
           /\ state'.schedulersPage = state.schedulersPage
           /\ state'.isLoading = state.isLoading
           /\ lookups' = lookups
           /\ state' = IF ~state.showConfirmDelete /\ state.showPageJump
                          /\ ev'.key \in Digits
                       THEN [state EXCEPT !.pageJumpInput = Append(@, ev'.key)]
                       ELSE state]_vars
  /\ [][(ev'.op = "pressed" /\ state' # state /\ state.showPageJump
           /\ state'.pageJumpInput # state.pageJumpInput)
        => ~state.showConfirmDelete]_vars
  /\ [][(ev'.op = "closed" /\ state.showConfirmDelete) => state' = state]_vars
  /\ [][(ev'.op = "closed" /\ ev'.overlay = "job" /\ state' # state)
        => ~state.showPageJump]_vars
  /\ [][(ev'.op = "closed" /\ ev'.overlay = "scheduler" /\ state' # state)
        => ~state.showPageJump /\ ~state.showJobDetail]_vars
\* C34 witness: "7" was typed while the page-jump modal lay over the job
\* overlay: it went into the modal's input and the filter stayed as it was.
DigitTypedIntoModal ==
  /\ ev.op = "pressed" /\ ev.key = "7"
  /\ state.showPageJump /\ state.showJobDetail
  /\ state.pageJumpInput = <<"7">>
  /\ state.jobsStatus = "latest"

(***************************************************************************)
(* Changing the selected queue: StateManager.selectNextQueue /             *)
(* selectPrevQueue (src/src/state.ts 122-144) and the SELECTION_CHANGED    *)
(* handler of the queue list (unnamed/part_004 244-255)                    *)
(***************************************************************************)
SelectNextQueue(s) ==
  IF s.selectedQueueIndex < Len(s.queues) - 1
  THEN SetState(s, [selectedQueueIndex |-> s.selectedQueueIndex + 1,
                    selectedJobIndex |-> 0, jobsPage |-> 1])
  ELSE s
SelectPrevQueue(s) ==
  IF s.selectedQueueIndex > 0
  THEN SetState(s, [selectedQueueIndex |-> s.selectedQueueIndex - 1,
                    selectedJobIndex |-> 0, jobsPage |-> 1])
  ELSE s
\* The handler of SELECTION_CHANGED(index) up to the await of the refreshJobs()
\* it starts; the page that refresh writes later is PageRefreshed.
QueueListSelected(s, index) ==
  IF s.selectedQueueIndex # index
  THEN SetState(s, [selectedQueueIndex |-> index, selectedJobIndex |-> 0, jobsPage |-> 1])
  ELSE s

\* One of the three ways the selected queue changes
QueueChanges(by, s) ==
  /\ state' = s
  /\ ev' = [op |-> "queueSelected", by |-> by,
            changed |-> s.selectedQueueIndex # state.selectedQueueIndex]
  /\ PagingOnly

\* A poll wrote the summaries of the broker's queues
QueuesPolled ==
  /\ state' = SummaryWrite(state, QueueStatsOf(QueueNameOrder), state.globalMetrics)
  /\ ev' = [op |-> "polled"]
  /\ PagingOnly

\* Keys "1".."7" and "right" of handleKeyPress up to the await of their refresh
ViewKey(key) ==
  /\ state' = CASE key = "right" ->
                     IF state.jobsStatus = "schedulers"
                     THEN NextSchedulerPage(state) ELSE NextPage(state)
                [] key \in DOMAIN STATUS_OPTIONS ->
                     IF STATUS_OPTIONS[key] = "schedulers"
                     THEN SetState(SetJobsStatus(state, STATUS_OPTIONS[key]),
                                   [selectedSchedulerIndex |-> 0, schedulersPage |-> 1])
                     ELSE SetJobsStatus(state, STATUS_OPTIONS[key])
  /\ ev' = [op |-> "pressed", key |-> key]
  /\ PagingOnly

NextQueueNav ==
  \/ QueuesPolled
  \/ \E key \in {"right"} \cup DOMAIN STATUS_OPTIONS : ViewKey(key)
  \/ SelectNextCall
  \/ \E total \in Totals : PageRefreshed(total)
  \/ QueueChanges("selectNextQueue", SelectNextQueue(state))
  \/ QueueChanges("selectPrevQueue", SelectPrevQueue(state))
  \/ \E index \in 0 .. Len(QueueNameOrder) - 1 :
       /\ index < Len(state.queues)
       /\ QueueChanges("SELECTION_CHANGED", QueueListSelected(state, index))

SpecQueueNav == Init /\ [][NextQueueNav]_vars

\* C35: after the selected queue changed (selectNextQueue, selectPrevQueue or
\* the selection event of the queue list), the list being viewed, the
\* schedulers in the scheduler view and the jobs in a job view, is on page 1
\* with index 0 selected.
QueueChangeResetsViewedList ==
  (ev.op = "queueSelected" /\ ev.changed)
    => IF state.jobsStatus = "schedulers"
       THEN state.schedulersPage = 1 /\ state.selectedSchedulerIndex = 0
       ELSE state.jobsPage = 1 /\ state.selectedJobIndex = 0

\* C36: in every state 1 <= jobsPage <= max(1, jobsTotalPages) and
\* 1 <= schedulersPage <= max(1, schedulersTotalPages), also after a refresh
\* reported fewer pages than the page the operator is on.
PageNumbersInRange ==
  /\ 1 <= state.jobsPage /\ state.jobsPage <= Max(1, state.jobsTotalPages)
  /\ 1 <= state.schedulersPage
  /\ state.schedulersPage <= Max(1, state.schedulersTotalPages)

(***************************************************************************)
(* One poll's two discoveries: PollingManager.poll calls getAllQueueStats() *)
(* and getGlobalMetrics() in one Promise.all (src/src/app.ts 554-555), and *)
(* each begins with its own discoverQueueNames() (unnamed/part_000 143,    *)
(* unnamed/part_001 136).  A caller whose discovery returned waits, with   *)
(* the names it got, for the other one.                                    *)
(***************************************************************************)
\* discoverQueueNames() up to its first await, called at `nowMs`
DiscoveryBegun(nowMs) ==
  IF Configured
  THEN [pc |-> "returned", now |-> nowMs, queueNames |-> config[1].queueNames,
        present |-> {}]
  ELSE IF CacheFresh(queueNamesCache, nowMs)
       THEN [pc |-> "returned", now |-> nowMs, queueNames |-> queueNamesCache[1].names,
             present |-> {}]
       ELSE [pc |-> "scanning", now |-> nowMs, queueNames |-> <<>>, present |-> QueueKeys(redisKeys)]

\* Promise.all([getAllQueueStats(), getGlobalMetrics()]): both calls are made
\* in the same run, before any answer of the broker is taken.
PollDiscovers ==
  /\ config # <<>>
  /\ \A c \in Callers : discoveries[c].pc = "idle"
  /\ discoveries' = [c \in Callers |-> DiscoveryBegun(now)]
  /\ ev' = [op |-> "pollBegun"]
  /\ UNCHANGED <<state, config, queueNamesCache, redisKeys, now>>
  /\ DiscoveryOnly

\* The scan of caller c ends: the names are sorted, cached and returned.
PollScanDone(c) ==
  /\ discoveries[c].pc = "scanning"
  /\ ScanComplete(discoveries[c])
  /\ queueNamesCache' = <<[names |-> ToSorted(discoveries[c].queueNames),
                           timestamp |-> discoveries[c].now]>>
  /\ discoveries' = [discoveries EXCEPT ![c] =
                       [pc |-> "returned", now |-> @.now, present |-> {},
                        queueNames |-> ToSorted(discoveries[c].queueNames)]]
  /\ ev' = [op |-> "scanReturned", caller |-> c]
  /\ UNCHANGED <<state, config, redisKeys, now>>
  /\ DiscoveryOnly

\* Both fetches are in: the poll writes the summaries getAllQueueStats mapped
\* from its names, and the metrics getGlobalMetrics summed over its own.
PollWritesSummary ==
  /\ \A c \in Callers : discoveries[c].pc = "returned"
  /\ state' = SummaryWrite(state, QueueStatsOf(discoveries["stats"].queueNames),
                           state.globalMetrics)
  /\ discoveries' = [c \in Callers |-> IdleDiscovery]
  /\ ev' = [op |-> "pollWritten", stats |-> discoveries["stats"].queueNames,
            metrics |-> discoveries["metrics"].queueNames]
  /\ UNCHANGED <<config, queueNamesCache, redisKeys, now>>
  /\ DiscoveryOnly

NextPollDiscovery ==
  \/ \E k \in DOMAIN ConfiguredNames : LoadConfig(k)
  \/ \E n \in KeyNames : AddKey(n)
  \/ \E d \in ClockSteps : ClockAdvances(d)
  \/ PollDiscovers
  \/ \E c \in Callers, key \in KeyNames : ScanKey(c, key)
  \/ \E c \in Callers, key \in KeyNames : ScanKeySkipped(c, key)
  \/ \E c \in Callers : PollScanDone(c)
  \/ PollWritesSummary

SpecPollDiscovery == Init /\ [][NextPollDiscovery]_vars

\* C37: within one poll the queue names are discovered once: the summary fetch
\* and the metrics fetch never both scan the key space, and the summaries and
\* the metrics the poll writes were computed over the same list of names.
PollDiscoversOnce ==
  /\ ~(\A c \in Callers : discoveries[c].pc = "scanning")
  /\ (ev.op = "pollWritten") => (ev.stats = ev.metrics)

\* C38: the job overlay and the scheduler overlay are never both visible,
\* however the key presses interleave with the detail fetches still awaited.
OneDetailOverlay == ~(state.showJobDetail /\ state.showSchedulerDetail)

\* C39: one showing of the delete dialog deletes at most one job: all the
\* deletions confirmed while the dialog stays on screen, by however many "y"
\* presses and whatever a poll wrote to the job list meanwhile, are of one job.
OneJobPerConfirmation == Cardinality(confirmed) <= 1

\* A list of the broker that runs from the newest job to the oldest
NewestFirst(list) == \A i, j \in DOMAIN list : i < j => list[i] > list[j]
\* C40: when every category list comes newest first, page p of the "latest"
\* view holds exactly the jobs at places (p-1)*pageSize+1 .. p*pageSize of all
\* the jobs of the queue read newest first: fetching only the first p*pageSize
\* jobs of each category loses none of them.
LatestPageExactWhenNewestFirst ==
  (/\ ev.op = "getJobs" /\ ev.status = "latest"
   /\ \A c \in DOMAIN queueJobs : NewestFirst(queueJobs[c]))
    => LET page == ev.result.page
       IN IsWindowOf(ev.result.jobs, FetchedOf(DOMAIN queueJobs, Cardinality(Timestamps)),
                     (page - 1) * PageSize, page * PageSize)
\* C40 witness: page 2 of a queue whose newest-first lists hold four jobs, three
\* of them in one category so that its first page alone would not do.
LatestSecondPageOfNewestFirst ==
  /\ ev.op = "getJobs" /\ ev.status = "latest" /\ ev.result.page = 2
  /\ queueJobs["active"] = <<100, 90, 80>>
  /\ queueJobs["completed"] = <<70>>
  /\ ev.result.jobs = <<80, 70>>

====
